---- MODULE Spec2Model ----
(***************************************************************************)
(* Model of the notion-pdf-export server: the HTML template renderer       *)
(* (templateRenderer.ts), the PDF generator (generatePdf) and the batch    *)
(* export route (POST /api/pdf/batch).                                     *)
(*                                                                         *)
(* A JavaScript string is modelled as a sequence of tokens; a token is an  *)
(* atomic piece of text (a tag, a word, a kind tag).  Template literals    *)
(* become concatenations, includes/startsWith/trim work on tokens.         *)
(***************************************************************************)
EXTENDS Integers, Sequences, FiniteSets, Bags, TLC

(***************************************************************************)
(* Bounds                                                                  *)
(***************************************************************************)
MaxBlocks == 4
MaxPages == 3
MaxRequests == 6
MaxRenders == 2
MaxRows == 3

\* the logout calls of the client awaited at the same time
MaxLogouts == 1

\* the OAuth callbacks awaiting their token exchange at the same time
MaxCallbacks == 2
MaxSearches == 1
MaxUploads == 1

(***************************************************************************)
(* String helpers                                                          *)
(***************************************************************************)
EmptyStr == << >>

\* the token of a numbered list item's opening tag, templateRenderer.ts:97/173
NumberedOpen == "<li class=\"numbered\">"

\* String.prototype.includes for one token
includes(s, tok) == \E k \in 1..Len(s) : s[k] = tok

\* String.prototype.startsWith for one token
startsWith(s, tok) == Len(s) > 0 /\ s[1] = tok

IsSpace(tok) == tok \in {" ", "\n"}

RECURSIVE trimStart(_)
trimStart(s) == IF Len(s) > 0 /\ IsSpace(s[1]) THEN trimStart(Tail(s)) ELSE s

RECURSIVE trimEnd(_)
trimEnd(s) ==
  IF Len(s) > 0 /\ IsSpace(s[Len(s)]) THEN trimEnd(SubSeq(s, 1, Len(s) - 1)) ELSE s

\* String.prototype.trim
trim(s) == trimEnd(trimStart(s))

\* Array.prototype.join over an array of strings
RECURSIVE join(_, _)
join(arr, sep) ==
  IF Len(arr) = 0 THEN EmptyStr
  ELSE IF Len(arr) = 1 THEN arr[1]
  ELSE arr[1] \o sep \o join(Tail(arr), sep)

(***************************************************************************)
(* Rich text, templateRenderer.ts:24-56                                    *)
(* A text item is [isNull, plain_text, annotations, href]: isNull marks a  *)
(* null array entry, annotations is the set of annotation names that are   *)
(* true, href is NoHref for null.                                          *)
(***************************************************************************)
NoHref == "null"

AnnotationNames == {"bold", "italic", "strikethrough", "underline", "code"}

Wrap(open, text, close) == <<open>> \o text \o <<close>>

\* the order in which the server applies the annotation wrappers
\* (templateRenderer.ts:33-47): each later one wraps the earlier ones
ServerAnnotationOrder == <<"bold", "italic", "strikethrough", "underline", "code">>

\* the order in which the client preview applies them (RichText component)
ClientAnnotationOrder == <<"code", "bold", "italic", "strikethrough", "underline">>

OpenTag(a) ==
  CASE a = "bold" -> "<strong>"
    [] a = "italic" -> "<em>"
    [] a = "strikethrough" -> "<s>"
    [] a = "underline" -> "<u>"
    [] a = "code" -> "<code>"

CloseTag(a) ==
  CASE a = "bold" -> "</strong>"
    [] a = "italic" -> "</em>"
    [] a = "strikethrough" -> "</s>"
    [] a = "underline" -> "</u>"
    [] a = "code" -> "</code>"

RECURSIVE applyAnnotations(_, _, _)
applyAnnotations(text, annotations, order) ==
  IF Len(order) = 0 THEN text
  ELSE LET a == Head(order)
           t == IF a \in annotations
                THEN Wrap(OpenTag(a), text, CloseTag(a))
                ELSE text
       IN applyAnnotations(t, annotations, Tail(order))

renderLink(text, href) ==
  IF href # NoHref THEN <<"<a href=\"", href, "\">">> \o text \o <<"</a>">> ELSE text

\* the callback of richTextArray.map, templateRenderer.ts:29-55
renderTextItem(textItem) ==
  renderLink(applyAnnotations(textItem.plain_text, textItem.annotations,
                              ServerAnnotationOrder),
             textItem.href)

\* the client's RichText component, per text item
RichText(textItem) ==
  renderLink(applyAnnotations(textItem.plain_text, textItem.annotations,
                              ClientAnnotationOrder),
             textItem.href)

RECURSIVE mapTextItems(_)
mapTextItems(richTextArray) ==
  IF Len(richTextArray) = 0 THEN EmptyStr
  ELSE renderTextItem(Head(richTextArray)) \o mapTextItems(Tail(richTextArray))

\* reading textItem.plain_text of a null entry raises a TypeError
richTextThrows(rt) ==
  rt.defined /\ \E k \in 1..Len(rt.items) : rt.items[k].isNull

\* renderRichText: a missing or empty array gives ''
renderRichText(rt) ==
  IF ~rt.defined \/ Len(rt.items) = 0 THEN EmptyStr ELSE mapTextItems(rt.items)

(***************************************************************************)
(* Blocks, templateRenderer.ts:61-163                                      *)
(* A block is [hasType, type, payload]; payload models block[block.type]:  *)
(* present is FALSE when that field is missing, rich_text is               *)
(* [defined, items].                                                       *)
(***************************************************************************)
NoValue == "undefined"

UnsupportedTypes ==
  {"image", "video", "file", "pdf", "bookmark", "embed", "link_preview",
   "table", "table_row", "column_list", "column", "child_page",
   "child_database", "equation", "breadcrumb", "table_of_contents",
   "link_to_page", "synced_block", "template", "audio"}

\* the kinds whose arm reads block[type].rich_text
TextTypes ==
  {"paragraph", "heading_1", "heading_2", "heading_3", "bulleted_list_item",
   "numbered_list_item", "to_do", "toggle", "code", "quote", "callout"}

SupportedTypes == TextTypes \cup {"divider"}

UnsupportedPrefix == "<!-- Unsupported block type: "
UnknownPrefix == "<!-- Unknown block type: "
CommentEnd == " -->"
ErrorPlaceholder == <<"<!-- Error rendering block -->">>
DefaultIcon == "lightbulb"

Returned(v) == [threw |-> FALSE, value |-> v]
Thrown == [threw |-> TRUE, value |-> EmptyStr]

\* one arm of the switch, for the kinds that carry rich text
renderTextBlock(blockType, payload) ==
  LET content == renderRichText(payload.rich_text) IN
  CASE blockType = "paragraph" ->
         IF content # EmptyStr THEN Wrap("<p>", content, "</p>")
         ELSE <<"<p>", "<br/>", "</p>">>
    [] blockType = "heading_1" -> Wrap("<h1>", content, "</h1>")
    [] blockType = "heading_2" -> Wrap("<h2>", content, "</h2>")
    [] blockType = "heading_3" -> Wrap("<h3>", content, "</h3>")
    [] blockType = "bulleted_list_item" -> Wrap("<li>", content, "</li>")
    [] blockType = "numbered_list_item" -> Wrap(NumberedOpen, content, "</li>")
    [] blockType = "to_do" ->
         <<"<div class=\"todo\">", "<input type=\"checkbox\" ",
           IF payload.checked THEN "checked" ELSE "", " disabled />", " ">>
         \o content \o <<"</div>">>
    [] blockType = "toggle" ->
         <<"<details>", "<summary>">> \o content \o <<"</summary>", "</details>">>
    [] blockType = "code" ->
         <<"<pre>", "<code class=\"language-",
           IF payload.language # NoValue THEN payload.language ELSE "plaintext",
           "\">">>
         \o content \o <<"</code>", "</pre>">>
    [] blockType = "quote" -> Wrap("<blockquote>", content, "</blockquote>")
    [] blockType = "callout" ->
         <<"<div class=\"callout\">", "<span class=\"callout-icon\">",
           IF payload.icon # NoValue THEN payload.icon ELSE DefaultIcon,
           "</span>", "<div>">>
         \o content \o <<"</div>", "</div>">>

\* the switch statement inside the try block, templateRenderer.ts:69-158:
\* returns a string or raises (a TypeError on a missing payload or a null
\* text item)
renderBlockSwitch(block) ==
  LET blockType == block.type IN
  IF blockType \in TextTypes
  THEN IF ~block.payload.present \/ richTextThrows(block.payload.rich_text)
       THEN Thrown
       ELSE Returned(renderTextBlock(blockType, block.payload))
  ELSE IF blockType = "divider" THEN Returned(<<"<hr />">>)
  ELSE IF blockType \in UnsupportedTypes
       THEN Returned(<<UnsupportedPrefix, blockType, CommentEnd>>)
  ELSE Returned(<<UnknownPrefix, blockType, CommentEnd>>)

\* a variant without the try/catch around the switch
renderBlock_nocatch(block) ==
  IF ~block.hasType THEN Returned(EmptyStr) ELSE renderBlockSwitch(block)

\* renderBlock, templateRenderer.ts:61-163
renderBlock(block) ==
  IF ~block.hasType THEN Returned(EmptyStr)
  ELSE LET r == renderBlockSwitch(block) IN
       IF r.threw THEN Returned(ErrorPlaceholder) ELSE r

(***************************************************************************)
(* List grouping, templateRenderer.ts:168-209                              *)
(* currentList is [type, items] with type NoList for null.                 *)
(***************************************************************************)
NoList == "null"

EmptyList == [type |-> NoList, items |-> << >>]

ListOpen(type) == IF type = "ol" THEN "<ol>" ELSE "<ul>"
ListClose(type) == IF type = "ol" THEN "</ol>" ELSE "</ul>"

\* block.includes('<li class="numbered">'), templateRenderer.ts:173
isNumberedItem(block) == includes(block, NumberedOpen)

\* a variant that never recognises a bulleted item
isBulletedItem_never(block) == FALSE

\* block.startsWith('<li>'), templateRenderer.ts:183
isBulletedItem(block) == startsWith(block, "<li>")

\* `<${type}>${items.join('')}</${type}>`
listContainer(list) ==
  <<ListOpen(list.type)>> \o join(list.items, EmptyStr) \o <<ListClose(list.type)>>

\* the list-item branches: close a list of another kind, then buffer
pushListItem(st, block, type) ==
  IF st.currentList.type # type
  THEN [result |-> IF st.currentList.type # NoList
                   THEN Append(st.result, listContainer(st.currentList))
                   ELSE st.result,
        currentList |-> [type |-> type, items |-> <<block>>]]
  ELSE [result |-> st.result,
        currentList |-> [st.currentList EXCEPT !.items = Append(@, block)]]

\* the else branch: close any open list, then emit the block
pushOther(st, block) ==
  IF st.currentList.type # NoList
  THEN [result |-> Append(Append(st.result, listContainer(st.currentList)), block),
        currentList |-> EmptyList]
  ELSE [result |-> Append(st.result, block), currentList |-> st.currentList]

\* the body of htmlBlocks.forEach, templateRenderer.ts:172-201
forEachBlock(st, block) ==
  IF isNumberedItem(block) THEN pushListItem(st, block, "ol")
  ELSE IF isBulletedItem(block) THEN pushListItem(st, block, "ul")
  ELSE pushOther(st, block)

\* a variant that forgets the end-of-sequence flush
closeRemaining_skip(st) == st.result

\* "Close any remaining list", templateRenderer.ts:203-206
closeRemaining(st) ==
  IF st.currentList.type # NoList
  THEN Append(st.result, listContainer(st.currentList))
  ELSE st.result

\* html => html.trim() !== '', templateRenderer.ts:215
nonBlank(html) == trim(html) # EmptyStr

(***************************************************************************)
(* Inputs of the rendering pipeline                                        *)
(***************************************************************************)
TextItem(text, annotations, href) ==
  [isNull |-> FALSE, plain_text |-> text, annotations |-> annotations, href |-> href]

NullTextItem ==
  [isNull |-> TRUE, plain_text |-> EmptyStr, annotations |-> {}, href |-> NoHref]

PlainText(text) == [defined |-> TRUE, items |-> <<TextItem(text, {}, NoHref)>>]

Payload(rt) ==
  [present |-> TRUE, rich_text |-> rt, checked |-> FALSE,
   language |-> NoValue, icon |-> NoValue]

MissingPayload ==
  [present |-> FALSE, rich_text |-> [defined |-> FALSE, items |-> << >>],
   checked |-> FALSE, language |-> NoValue, icon |-> NoValue]

Block(type, payload) == [hasType |-> TRUE, type |-> type, payload |-> payload]

NoTypeBlock == [hasType |-> FALSE, type |-> NoValue, payload |-> MissingPayload]

\* the blocks of a page: plain items, items whose text is itself markup,
\* an unsupported kind, an unknown kind, a block without payload and a
\* block without type
PageBlocks ==
  {Block("paragraph", Payload(PlainText(<<"a">>))),
   Block("paragraph", Payload(PlainText(<<NumberedOpen>>))),
   Block("bulleted_list_item", Payload(PlainText(<<"a">>))),
   Block("bulleted_list_item", Payload(PlainText(<<NumberedOpen>>))),
   Block("numbered_list_item", Payload(PlainText(<<"a">>))),
   Block("image", MissingPayload),
   Block("mystery", MissingPayload),
   Block("paragraph", MissingPayload),
   NoTypeBlock}

BlockLists == UNION {[1..n -> PageBlocks] : n \in 0..MaxBlocks}

(***************************************************************************)
(* Document composition, pdfGenerator.ts (authService.ts:131-283)          *)
(* A letterhead is [logoUrl, companyName, address, phone, email]; an       *)
(* absent optional field is the empty string (both are falsy).  A property *)
(* map is the sequence of its [key, value] entries in insertion order.     *)
(* The white space of the template literals is not kept.                   *)
(***************************************************************************)
Letterhead(companyName, address) ==
  [logoUrl |-> EmptyStr, companyName |-> companyName, address |-> address,
   phone |-> EmptyStr, email |-> EmptyStr]

NoLetterhead == Letterhead(EmptyStr, EmptyStr)

LetterheadOpen == "<div class=\"letterhead\">"
LetterheadDivider == "<div class=\"letterhead-divider\"></div>"
CompanyNameOpen == "<div class=\"company-name\">"
ContactLineOpen == "<div class=\"contact-line\">"
TitleHeadingOpen == "<h1 class=\"page-title\">"
PropertiesOpen == "<div class=\"properties-section\">"
PropertyRowOpen == "<div class=\"property-row\">"
PropertyLabelOpen == "<span class=\"property-label\">"
PropertyValueOpen == "<span class=\"property-value\">"
ContentOpen == "<div class=\"content\">"

\* generateLetterheadHtml
generateLetterheadHtml(lh) ==
  <<LetterheadOpen, "<div class=\"letterhead-content\">">>
  \o (IF lh.logoUrl # EmptyStr
      THEN <<"<img src=\"">> \o lh.logoUrl
           \o <<"\" alt=\"Logo\" class=\"letterhead-logo\" />">>
      ELSE EmptyStr)
  \o <<"<div class=\"letterhead-info\">", CompanyNameOpen>>
  \o lh.companyName \o <<"</div>">>
  \o (IF lh.address # EmptyStr
      THEN <<ContactLineOpen>> \o lh.address \o <<"</div>">>
      ELSE EmptyStr)
  \o <<ContactLineOpen>>
  \o (IF lh.phone # EmptyStr THEN <<"<span>">> \o lh.phone \o <<"</span>">>
      ELSE EmptyStr)
  \o (IF lh.phone # EmptyStr /\ lh.email # EmptyStr THEN <<" ", "(bullet)", " ">>
      ELSE EmptyStr)
  \o (IF lh.email # EmptyStr THEN <<"<span>">> \o lh.email \o <<"</span>">>
      ELSE EmptyStr)
  \o <<"</div>", "</div>", "</div>", LetterheadDivider, "</div>">>

\* ([key]) => !hiddenProperties.includes(key) && key !== 'title'
isVisibleProperty(entry, hiddenProperties) ==
  entry.key \notin hiddenProperties /\ entry.key # <<"title">>

\* Object.entries(properties).filter(...)
visibleProperties(properties, hiddenProperties) ==
  LET keep(entry) == isVisibleProperty(entry, hiddenProperties)
  IN  SelectSeq(properties, keep)

\* one row of the properties panel
propertyRow(entry) ==
  <<PropertyRowOpen, PropertyLabelOpen>> \o entry.key \o <<":", "</span>">>
  \o <<PropertyValueOpen>> \o entry.value \o <<"</span>", "</div>">>

\* generatePropertiesHtml
generatePropertiesHtml(properties, hiddenProperties) ==
  IF Len(properties) = 0 THEN EmptyStr
  ELSE LET visible == visibleProperties(properties, hiddenProperties) IN
         IF Len(visible) = 0 THEN EmptyStr
         ELSE <<PropertiesOpen>>
              \o join([k \in 1..Len(visible) |-> propertyRow(visible[k])], EmptyStr)
              \o <<"</div>">>

\* renderBlocks, templateRenderer.ts:214-218, as one call
RECURSIVE mapBlocks(_)
mapBlocks(bs) ==
  IF Len(bs) = 0 THEN Returned(<< >>)
  ELSE LET r == renderBlock(bs[1])
           rest == mapBlocks(Tail(bs))
       IN  IF r.threw \/ rest.threw THEN Thrown
           ELSE Returned(<<r.value>> \o rest.value)

RECURSIVE groupFrom(_, _)
groupFrom(st, htmls) ==
  IF Len(htmls) = 0 THEN closeRemaining(st)
  ELSE groupFrom(forEachBlock(st, htmls[1]), Tail(htmls))

groupLists(htmls) == groupFrom([result |-> << >>, currentList |-> EmptyList], htmls)

renderBlocks(bs) ==
  LET m == mapBlocks(bs) IN
    IF m.threw THEN Thrown
    ELSE Returned(join(groupLists(SelectSeq(m.value, nonBlank)), <<"\n">>))

\* a variant that emits the heading for every title
titleHeading_always(title) == <<TitleHeadingOpen>> \o title \o <<"</h1>">>

\* request.title && request.title !== 'Untitled' ? `<h1 ...>` : ''
titleHeading(title) ==
  IF title # EmptyStr /\ title # <<"Untitled">>
  THEN <<TitleHeadingOpen>> \o title \o <<"</h1>">>
  ELSE EmptyStr

\* generatePageHtmlDocument
generatePageHtmlDocument(req) ==
  LET letterheadHtml == generateLetterheadHtml(req.letterhead)
      propertiesHtml == generatePropertiesHtml(req.properties, req.hiddenProperties)
      contentHtml == renderBlocks(req.blocks)
  IN  IF contentHtml.threw THEN Thrown
      ELSE Returned(
             <<"<!DOCTYPE html>", "<html lang=\"en\">", "<head>", "<title>">>
             \o req.title
             \o <<"</title>", "<style>", "</style>", "</head>", "<body>">>
             \o letterheadHtml
             \o titleHeading(req.title)
             \o propertiesHtml
             \o <<ContentOpen>> \o contentHtml.value \o <<"</div>">>
             \o <<"</body>", "</html>">>)

PageRequest(title, bs, lh, properties, hiddenProperties) ==
  [type |-> "page", title |-> title, blocks |-> bs, letterhead |-> lh,
   properties |-> properties, hiddenProperties |-> hiddenProperties]

NoDocRequest == PageRequest(EmptyStr, << >>, NoLetterhead, << >>, {})

Property(key, value) == [key |-> key, value |-> value]

\* the text values of the composition inputs: plain words and values that
\* carry markup characters
DocTitles == {<<"Untitled">>, <<"Report">>, <<"<script>">>}

DocLetterheads ==
  {Letterhead(<<"Acme">>, EmptyStr),
   Letterhead(<<"Acme", " ", "<Corp>">>, EmptyStr),
   Letterhead(<<"Acme">>, <<"1", " ", "Main", " ", "&", " ", "Co">>)}

DocProperties ==
  {<< >>,
   <<Property(<<"title">>, <<"Report">>)>>,
   <<Property(<<"title">>, <<"Report">>), Property(<<"Status">>, <<"Done">>)>>,
   <<Property(<<"Title">>, <<"Report">>), Property(<<"Status">>, <<"Done">>)>>,
   <<Property(<<"Status">>, <<"<script>">>), Property(<<"Owner">>, <<"a", "&", "b">>)>>}

DocHidden == SUBSET {<<"title">>, <<"Status">>, <<"Owner">>}

DocBlocks ==
  {<< >>,
   <<Block("paragraph", Payload(PlainText(<<"a">>)))>>,
   <<Block("paragraph", Payload(PlainText(<<"<script>">>))),
     Block("bulleted_list_item", Payload(PlainText(<<"a">>)))>>}

(***************************************************************************)
(* Input validation, utils/validation.ts (part_002:231-347)                *)
(***************************************************************************)
\* a company name of 201 characters, one token
LongName == "AAAAAAAAAAAAAAAAAAAAAAAAAAAAAAAAAAAAAAAAAAAAAAAAAAAAAAAAAAAAAAAAAAAAAAAAAAAAAAAAAAAAAAAAAAAAAAAAAAAAAAAAAAAAAAAAAAAAAAAAAAAAAAAAAAAAAAAAAAAAAAAAAAAAAAAAAAAAAAAAAAAAAAAAAAAAAAAAAAAAAAAAAAAAAAAAAAAAAAAAA"

\* String.prototype.length of one token
TokenLength(tok) ==
  CASE tok = LongName -> 201
    [] tok = "Acme" -> 4
    [] tok = "<Corp>" -> 6
    [] tok = "<script>" -> 8
    [] tok = "Main" -> 4
    [] tok = "Co" -> 2
    [] tok = "https://" -> 8
    [] tok = "ftp://" -> 6
    [] tok = "data:" -> 5
    [] tok = "image/png;base64," -> 17
    [] tok = "text/html;base64," -> 17
    [] tok = "logo" -> 4
    [] tok = "ntn_" -> 4
    [] tok = "secret_" -> 7
    [] tok = "bearer_" -> 7
    [] tok = "oauth-token-value" -> 17
    [] tok = "body-token-value" -> 16
    [] OTHER -> 1

RECURSIVE length(_)
length(s) == IF Len(s) = 0 THEN 0 ELSE TokenLength(s[1]) + length(Tail(s))

\* a token that is one whole tag, a match of /<[^>]*>/
IsTag(tok) == tok \in {"<Corp>", "<script>", NumberedOpen}

\* a token that holds a '>'
HasGt(tok) == IsTag(tok) \/ tok = ">"

\* .replace(/<[^>]*>/g, ''): a match starts at a tag token or at a lone '<'
\* and ends at the first '>' after it
RECURSIVE stripTags(_)
stripTags(s) ==
  IF Len(s) = 0 THEN EmptyStr
  ELSE IF IsTag(s[1]) THEN stripTags(Tail(s))
  ELSE IF s[1] = "<" /\ \E k \in 2..Len(s) : HasGt(s[k])
  THEN LET k == CHOOSE k \in 2..Len(s) :
                  HasGt(s[k]) /\ \A j \in 2..(k - 1) : ~HasGt(s[j])
       IN  stripTags(SubSeq(s, k + 1, Len(s)))
  ELSE <<s[1]>> \o stripTags(Tail(s))

\* .replace(/[<>\"']/g, '')
stripChars(s) ==
  LET keep(tok) == tok \notin {"<", ">", "\"", "'"}
  IN  SelectSeq(s, keep)

\* sanitizeString, part_002:317-322
sanitizeString(str) == stripChars(stripTags(trim(str)))

Invalid(error) == [valid |-> FALSE, error |-> error, sanitized |-> NoLetterhead]

ImageFormats == {"image/png;base64,"}

\* the checks of the logo URL, part_002:271-291; "" when it passes
logoUrlError(logoUrl) ==
  IF logoUrl = EmptyStr THEN ""
  ELSE IF startsWith(logoUrl, "data:")
  THEN IF length(logoUrl) > 10 * 1024 * 1024 THEN "Logo is too large (max 10MB)"
       ELSE IF ~(Len(logoUrl) > 1 /\ logoUrl[2] \in ImageFormats)
       THEN "Invalid image format. Supported: PNG, JPEG, GIF, SVG, WebP"
       ELSE ""
  ELSE IF startsWith(logoUrl, "http://") \/ startsWith(logoUrl, "https://")
  THEN IF length(logoUrl) > 2000 THEN "Logo URL is too long (max 2000 characters)"
       ELSE ""
  ELSE "Logo must be a data URL or HTTP(S) URL"

\* validateLetterheadData on a letterhead object whose fields are strings
\* or absent
validateLetterheadData(lh) ==
  IF lh.companyName = EmptyStr THEN Invalid("Company name is required")
  ELSE IF Len(trim(lh.companyName)) = 0 THEN Invalid("Company name cannot be empty")
  ELSE IF length(lh.companyName) > 200
  THEN Invalid("Company name is too long (max 200 characters)")
  ELSE IF length(lh.address) > 500
  THEN Invalid("Address is too long (max 500 characters)")
  ELSE IF length(lh.phone) > 50 THEN Invalid("Phone is too long (max 50 characters)")
  ELSE IF length(lh.email) > 200 THEN Invalid("Email is too long (max 200 characters)")
  ELSE IF logoUrlError(lh.logoUrl) # "" THEN Invalid(logoUrlError(lh.logoUrl))
  ELSE [valid |-> TRUE, error |-> "",
        sanitized |-> [logoUrl |-> lh.logoUrl,
                       companyName |-> sanitizeString(lh.companyName),
                       address |-> sanitizeString(lh.address),
                       phone |-> sanitizeString(lh.phone),
                       email |-> sanitizeString(lh.email)]]

(***************************************************************************)
(* The body of a single-render request, routes/pdf.ts (part_001:210-303)   *)
(* type is NoValue when the field is absent; blocksIsArray is FALSE for a  *)
(* missing or non-array blocks; hasDatabase is FALSE for a missing         *)
(* database; a hidden list is [present, isArray, items]; engine and        *)
(* closeRejects script the engine for the render of this request.          *)
(***************************************************************************)
AbsentArray == [present |-> FALSE, isArray |-> FALSE, items |-> << >>]
ArrayOf(items) == [present |-> TRUE, isArray |-> TRUE, items |-> items]
NotArray == [present |-> TRUE, isArray |-> FALSE, items |-> << >>]

\* validatePropertyArray, part_002:327-347
validatePropertyArray(properties) ==
  /\ properties.isArray
  /\ Len(properties.items) <= 100
  /\ \A k \in 1..Len(properties.items) : length(properties.items[k]) <= 200

Body(type, title, blocksIsArray, hasDatabase, lh, hidden, script) ==
  [type |-> type, title |-> title, blocksIsArray |-> blocksIsArray,
   hasDatabase |-> hasDatabase, letterhead |-> lh,
   hiddenProperties |-> hidden, hiddenColumns |-> hidden,
   engine |-> script, closeRejects |-> 0]

NoBody == Body(NoValue, EmptyStr, FALSE, FALSE, NoLetterhead, AbsentArray, "ok")

BodyTypes == {"page", "database", NoValue}

BodyTitles == {EmptyStr, <<"Report">>, <<"a", " ", "b">>}

BodyLetterheads ==
  {Letterhead(<<"Acme">>, EmptyStr),
   NoLetterhead,
   Letterhead(<<" ">>, EmptyStr),
   Letterhead(<<LongName>>, EmptyStr),
   Letterhead(<<" ", "Acme", " ", "<Corp>">>, <<"1", "<", "2", ">", "&", "'">>),
   Letterhead(<<" ", "<Corp>">>, EmptyStr),
   [Letterhead(<<"Acme">>, EmptyStr) EXCEPT !.logoUrl = <<"https://", "logo">>],
   [Letterhead(<<"Acme">>, EmptyStr) EXCEPT !.logoUrl = <<"ftp://", "logo">>],
   [Letterhead(<<"Acme">>, EmptyStr) EXCEPT
      !.logoUrl = <<"data:", "text/html;base64,", "logo">>]}

BodyHidden == {AbsentArray, ArrayOf(<<<<"Status">>>>), ArrayOf(<<<<LongName>>>>), NotArray}

Bodies ==
  {Body(t, ti, ba, hd, lh, h, sc) :
     t \in BodyTypes, ti \in BodyTitles, ba \in BOOLEAN, hd \in BOOLEAN,
     lh \in BodyLetterheads, h \in BodyHidden, sc \in {"ok", "pdf_error"}}

(***************************************************************************)
(* The middleware stack, server.ts:172-234                                 *)
(* A layer is [kind, name, mount, routes, max]: a rate limiter counts the  *)
(* requests under its mount path and answers 429 above max, a router ends  *)
(* the request in the handler of a matching route, every other layer       *)
(* passes the request on.                                                  *)
(***************************************************************************)
GeneralMax == 100
PdfMax == 10
BatchMax == 5
FetchMax == 30

GeneratePath == "/api/pdf/generate"
BatchPath == "/api/pdf/batch"
FetchPath == "/api/notion/fetch"

Limiter(name, mount, max) ==
  [kind |-> "limiter", name |-> name, mount |-> mount, routes |-> {}, max |-> max]

Router(name, mount, routes) ==
  [kind |-> "router", name |-> name, mount |-> mount, routes |-> routes, max |-> 0]

\* the layers in the order of their app.use calls
AppStack ==
  <<Limiter("generalLimiter", "/", GeneralMax),
    Router("authRouter", "/api/auth", {}),
    Router("notionRouter", "/api/notion", {<<"POST", FetchPath>>}),
    Router("pdfRouter", "/api/pdf", {<<"POST", GeneratePath>>, <<"POST", BatchPath>>}),
    Limiter("pdfLimiter", GeneratePath, PdfMax),
    Limiter("batchPdfLimiter", BatchPath, BatchMax),
    Limiter("notionFetchLimiter", FetchPath, FetchMax)>>

LimiterNames == {"generalLimiter", "pdfLimiter", "batchPdfLimiter", "notionFetchLimiter"}

MinuteLimiters == {"pdfLimiter", "batchPdfLimiter", "notionFetchLimiter"}

LimitedPaths == {GeneratePath, BatchPath, FetchPath}

IPs == {"ip1", "ip2"}

\* the requests sent: the three limited routes, and a method that no
\* route of the batch path handles
Requests ==
  {[method |-> "POST", path |-> p] : p \in LimitedPaths}
  \cup {[method |-> "GET", path |-> BatchPath]}

\* the path of the request lies under the mount path of the layer
isMounted(layer, path) == layer.mount = "/" \/ layer.mount = path

\* the request through the layers from the k-th on: the hit counts after
\* it and where it ended
RECURSIVE dispatch(_, _, _)
dispatch(k, h, req) ==
  IF k > Len(AppStack)
  THEN [hits |-> h, result |-> "notFound", by |-> "none"]
  ELSE LET layer == AppStack[k] IN
    IF layer.kind = "limiter" /\ isMounted(layer, req.path)
    THEN LET counted == [h EXCEPT ![layer.name][req.ip] = @ + 1] IN
           IF counted[layer.name][req.ip] > layer.max
           THEN [hits |-> counted, result |-> "limited", by |-> layer.name]
           ELSE dispatch(k + 1, counted, req)
    ELSE IF layer.kind = "router" /\ <<req.method, req.path>> \in layer.routes
    THEN [hits |-> h, result |-> "handled", by |-> layer.name]
    ELSE dispatch(k + 1, h, req)

NoHits == [l \in LimiterNames |-> [ip \in IPs |-> 0]]
NoneServed == [p \in LimitedPaths |-> [ip \in IPs |-> 0]]
NoOutcomeYet == [result |-> "none", by |-> "none"]

(***************************************************************************)
(* Concurrent invocations of generatePdf, authService.ts:377-419           *)
(* Every invocation has its own local `browser` (0 for undefined); the     *)
(* engine keeps for each instance who launched it and which invocations    *)
(* opened a page on it.                                                    *)
(***************************************************************************)
NoRender == [pc |-> "idle", browser |-> 0, origin |-> "none"]

RenderOrigins == {"generate", "batch"}

\* a variant that hands out an instance that is still open, if there is one
launchedInstance_shared(engs) ==
  IF \E k \in 1..Len(engs) : engs[k].state = "open"
  THEN CHOOSE k \in 1..Len(engs) : engs[k].state = "open"
  ELSE Len(engs) + 1

\* puppeteer.launch(): the instance the call returns, always a new one
launchedInstance(engs) == Len(engs) + 1

(***************************************************************************)
(* The database table, PreviewDocument.tsx:47-91                           *)
(* A resource is [type, icon, title, schema, rows]: the schema is the      *)
(* sequence of its [name, type] columns in insertion order, a row is       *)
(* [id, properties] with properties the sequence of its [key, value]       *)
(* entries in insertion order.                                             *)
(***************************************************************************)
\* one token through escapeHtml (textContent, then innerHTML)
escapeToken(tok) ==
  CASE tok = "<script>" -> "&lt;script&gt;"
    [] tok = "<Corp>" -> "&lt;Corp&gt;"
    [] tok = "<" -> "&lt;"
    [] tok = ">" -> "&gt;"
    [] tok = "&" -> "&amp;"
    [] OTHER -> tok

escapeHtml(text) == [k \in 1..Len(text) |-> escapeToken(text[k])]

NoColumnsMessage == "<p><em>No columns to display (all columns are hidden)</em></p>"
EmptyCell == "<span class=\"empty-cell\">--</span>"
HeaderCellOpen == "<th data-type=\""
DataCellOpen == "<td data-type=\""
DefaultTableIcon == "(chart)"

\* Object.keys(record)
keysOf(entries) == [k \in 1..Len(entries) |-> entries[k].key]

\* record[key] of a record given by its entries, EmptyStr for undefined
valueOf(entries, key) ==
  IF \E k \in 1..Len(entries) : entries[k].key = key
  THEN entries[CHOOSE k \in 1..Len(entries) : entries[k].key = key].value
  ELSE EmptyStr

\* resource.schema[col]?.type || 'text'
columnType(schema, col) ==
  IF \E k \in 1..Len(schema) : schema[k].name = col
  THEN schema[CHOOSE k \in 1..Len(schema) : schema[k].name = col].type
  ELSE "text"

\* Object.keys(resource.rows?.[0]?.properties || {}).filter(col => !hiddenColumns.includes(col))
visibleColumns(res, hidden) ==
  LET first == IF Len(res.rows) > 0 THEN keysOf(res.rows[1].properties) ELSE << >>
      shown(col) == col \notin hidden
  IN  SelectSeq(first, shown)

headerCell(schema, col) ==
  <<HeaderCellOpen, columnType(schema, col), "\">">> \o escapeHtml(col) \o <<"</th>">>

dataCell(schema, row, col) ==
  LET value == valueOf(row.properties, col) IN
    <<DataCellOpen, columnType(schema, col), "\">">>
    \o (IF value # EmptyStr THEN escapeHtml(value) ELSE <<EmptyCell>>)
    \o <<"</td>">>

\* one <tr> of the body; idx is the 0-based index of the row
dataRow(schema, row, idx, columns) ==
  <<IF idx % 2 = 0 THEN "<tr class=\"even\">" ELSE "<tr class=\"odd\">">>
  \o join([k \in 1..Len(columns) |-> dataCell(schema, row, columns[k])], EmptyStr)
  \o <<"</tr>">>

\* generateDatabaseTableHtml
generateDatabaseTableHtml(res, hidden) ==
  IF res.type # "database" THEN EmptyStr
  ELSE LET columns == visibleColumns(res, hidden) IN
    IF Len(columns) = 0 THEN <<NoColumnsMessage>>
    ELSE <<"<div class=\"database-container\">", "<h2 class=\"database-title\">",
           IF res.icon # "" THEN res.icon ELSE DefaultTableIcon, " ">>
         \o escapeHtml(res.title)
         \o <<"</h2>", "<table class=\"notion-database\">", "<thead>", "<tr>">>
         \o join([k \in 1..Len(columns) |-> headerCell(res.schema, columns[k])], EmptyStr)
         \o <<"</tr>", "</thead>", "<tbody>">>
         \o join([k \in 1..Len(res.rows) |->
                    dataRow(res.schema, res.rows[k], k - 1, columns)], EmptyStr)
         \o <<"</tbody>", "</table>", "</div>">>

Column(name, type) == [name |-> name, type |-> type]

Row(id, properties) == [id |-> id, properties |-> properties]

Database(title, schema, rows) ==
  [type |-> "database", icon |-> "", title |-> title, schema |-> schema, rows |-> rows]

NoResource == [type |-> "none", icon |-> "", title |-> EmptyStr, schema |-> << >>,
               rows |-> << >>]

\* a three-column schema
TableSchema ==
  <<Column(<<"Name">>, "title"), Column(<<"Status">>, "select"),
    Column(<<"Due">>, "date")>>

\* rows as fetchNotionDatabase builds them: every column of the page, in
\* the key order of the page's own properties object
TableRows ==
  {Row("r1", <<Property(<<"Name">>, <<"a">>), Property(<<"Status">>, <<"Done">>),
               Property(<<"Due">>, <<"2024">>)>>),
   Row("r2", <<Property(<<"Name">>, <<"<script>">>), Property(<<"Status">>, EmptyStr),
               Property(<<"Due">>, <<"2024">>)>>),
   Row("r3", <<Property(<<"Due">>, <<"2025">>), Property(<<"Status">>, <<"Open">>),
               Property(<<"Name">>, <<"b">>)>>)}

TableRowLists == UNION {[1..n -> TableRows] : n \in 0..MaxRows}

TableHidden == SUBSET {<<"Name">>, <<"Status">>, <<"Due">>}

(***************************************************************************)
(* The OAuth routes, routes/auth.ts (part_002:11-130)                      *)
(* A session is [oauthState, notionToken] with NoValue for an absent       *)
(* field; a query is [code, state, error] with NoValue for an absent       *)
(* parameter.  cookie-session reads the session from the request's cookie  *)
(* and writes it back with the response.                                   *)
(***************************************************************************)
Clients == {"c1", "c2"}

\* the values generateRandomState can return
OAuthStates == {"st1", "st2"}

NoSession == [oauthState |-> NoValue, notionToken |-> NoValue]

NoReply == [client |-> "none", kind |-> "none"]

\* process.env of the server: which of the three OAuth variables are set
OAuthEnvs ==
  [NOTION_CLIENT_ID : BOOLEAN, NOTION_CLIENT_SECRET : BOOLEAN,
   NOTION_REDIRECT_URI : BOOLEAN]

ConfiguredEnv ==
  [NOTION_CLIENT_ID |-> TRUE, NOTION_CLIENT_SECRET |-> TRUE,
   NOTION_REDIRECT_URI |-> TRUE]

\* validateOAuthConfig(): "valid", or the error it names
validateOAuthConfig(env) ==
  IF ~env.NOTION_CLIENT_ID THEN "NOTION_CLIENT_ID is not set"
  ELSE IF ~env.NOTION_CLIENT_SECRET THEN "NOTION_CLIENT_SECRET is not set"
  ELSE IF ~env.NOTION_REDIRECT_URI THEN "NOTION_REDIRECT_URI is not set"
  ELSE "valid"

\* the 500 response of GET /notion: {error: 'OAuth not configured', message}
notConfigured(message) == "500 OAuth not configured: " \o message

Queries ==
  [code : {"code1", NoValue}, state : OAuthStates \cup {NoValue}, error : BOOLEAN]

\* a variant that accepts every state
stateVerified_any(state, sess) == TRUE

\* state !== req.session?.oauthState, negated
stateVerified(state, sess) == state = sess.oauthState

\* the checks of the callback before the exchange, "ok" when they pass
callbackCheck(query, sess) ==
  IF query.error THEN "access_denied"
  ELSE IF query.code = NoValue THEN "Missing authorization code"
  ELSE IF query.state = NoValue THEN "Missing state parameter"
  ELSE IF ~stateVerified(query.state, sess) THEN "Invalid state parameter"
  ELSE "ok"

(***************************************************************************)
(* The client wizard, client/src/App.tsx                                   *)
(***************************************************************************)
\* the resources a fetch can return: a page without properties, a page
\* with properties, a database with columns
PlainPage == [type |-> "page", filterable |-> FALSE]
PropsPage == [type |-> "page", filterable |-> TRUE]
ColumnsDatabase == [type |-> "database", filterable |-> TRUE]

\* useState<AppState>({...}), App.tsx:36-51
InitialAppState ==
  [step |-> 1, notionUrl |-> EmptyStr, notionToken |-> EmptyStr, pageData |-> << >>,
   letterhead |-> [companyName |-> EmptyStr, logoUrl |-> NoValue],
   hiddenProperties |-> << >>, hiddenColumns |-> << >>,
   loading |-> FALSE, error |-> "null", authenticated |-> FALSE,
   workspaceName |-> NoValue, workspaceIcon |-> NoValue]

\* the answers of GET /api/auth/status
AuthStatuses ==
  {[authenticated |-> FALSE, workspaceName |-> NoValue, workspaceIcon |-> NoValue],
   [authenticated |-> TRUE, workspaceName |-> NoValue, workspaceIcon |-> NoValue],
   [authenticated |-> TRUE, workspaceName |-> "Acme WS", workspaceIcon |-> NoValue],
   [authenticated |-> TRUE, workspaceName |-> "Acme WS", workspaceIcon |-> "icon.png"]}

\* the comma-separated URLs the user submits, with the resources they name
FetchInputs == {<<"u1">>, <<"u2">>, <<"u1", "u3">>}

resourceOf(url) ==
  CASE url = "u1" -> PlainPage
    [] url = "u2" -> PropsPage
    [] OTHER -> ColumnsDatabase

\* state.pageData.some(...): some resource has properties or columns
hasFilterableFields(pageData) == \E k \in 1..Len(pageData) : pageData[k].filterable

\* includes(name) ? filter(p => p !== name) : [...list, name]
toggle(list, name) ==
  IF includes(list, name) THEN SelectSeq(list, LAMBDA p : p # name)
  ELSE Append(list, name)

(***************************************************************************)
(* State                                                                   *)
(***************************************************************************)
VARIABLES
  blocks,       \* renderBlocks: the argument
  rpc,          \* renderBlocks: position ("map", "filter", "group", "join", "done", "threw")
  mapped,       \* renderBlocks: blocks.map(renderBlock), as far as computed
  htmlBlocks,   \* renderBlocks: the filtered fragments handed to groupLists
  gidx,         \* groupLists: index of the next fragment of the forEach
  glist,        \* groupLists: [result, currentList]
  grouped,      \* renderBlocks: groupedBlocks, the value groupLists returned
  output        \* renderBlocks: the returned string

renderVars == <<blocks, rpc, mapped, htmlBlocks, gidx, glist, grouped, output>>

VARIABLES
  textItem,     \* renderRichText: the text item of the call
  richTextHtml, \* renderRichText: the returned string
  rtPc,         \* renderRichText: "idle", "called", "returned"
  block,        \* renderBlock: the block of the call
  blockHtml,    \* renderBlock: the outcome, [threw, value]
  blkPc         \* renderBlock: "idle", "called", "done"

callVars == <<textItem, richTextHtml, rtPc, block, blockHtml, blkPc>>

VARIABLES
  pages,        \* POST /batch: req.body.pages
  letterhead,   \* POST /batch: req.body.letterhead
  bpc,          \* POST /batch: position of the handler
  bi,           \* POST /batch: the loop index i (1-based)
  pdfBuffers,   \* POST /batch: the {filename, buffer} collected so far
  response,     \* POST /batch: what has been sent on res
  gpc,          \* generatePdf: position
  request,      \* generatePdf: the PdfGenerationRequest of the call
  browser,      \* generatePdf: the local `browser` (0 for undefined, else an instance id)
  gError,       \* generatePdf: the error caught by the catch clause
  gOutcome,     \* generatePdf: the Buffer returned or the Error thrown
  closeCalls,   \* engine: number of browser.close() calls of this generatePdf call
  instances,    \* engine: every instance launched so far, "open" or "closed"
  fault         \* engine: phase and kind of the fault injected into this call

pdfVars == <<pages, letterhead, bpc, bi, pdfBuffers, response, gpc, request,
             browser, gError, gOutcome, closeCalls, instances, fault>>

VARIABLES
  docRequest,   \* generatePageHtmlDocument: the PagePdfGenerationRequest of the call
  document,     \* generatePageHtmlDocument: the outcome, [threw, value]
  cpc           \* generatePageHtmlDocument: "idle", "called", "done"

composeVars == <<docRequest, document, cpc>>

VARIABLES
  body,         \* POST /generate: req.body
  hpc           \* POST /generate: position of the handler

routeVars == <<body, hpc>>

VARIABLES
  hits,         \* express-rate-limit: the hit count of each limiter and IP in its window
  served,       \* per route and IP, the requests of this minute that reached the handler
  arrived,      \* the number of requests received so far
  outcome       \* what happened to the last request, [result, by]

limitVars == <<hits, served, arrived, outcome>>

VARIABLES
  renders,      \* the generatePdf invocations: per invocation [pc, browser, origin]
  engines       \* every browser instance launched: [state, launchedBy, users]

concVars == <<renders, engines>>

VARIABLES
  resource,     \* generateDatabaseTableHtml: the NotionResourceData of the call
  hiddenColumns,\* generateDatabaseTableHtml: the hidden column names
  tableHtml,    \* generateDatabaseTableHtml: the returned string
  tpc           \* generateDatabaseTableHtml: "idle", "called", "done"

tableVars == <<resource, hiddenColumns, tableHtml, tpc>>

VARIABLES
  session,      \* cookie-session: per client the session of its cookie
  callback,     \* GET /notion/callback: the bag of handlers awaiting the exchange,
                \* [client, state, session]
  issued,       \* the [client, state] pairs GET /notion stored in a session
  exchanges,    \* the exchangeCodeForToken calls: [client, state, held]
  tokenWrites,  \* the writes of req.session.notionToken: [client, state]
  pagesSearch,  \* GET /pages: per client the number of handlers awaiting notion.search
  oauthEnv,     \* process.env: which OAuth variables are set, fixed at start
  reply         \* the last response of the auth routes, [client, kind]

oauthVars == <<session, callback, issued, exchanges, tokenWrites, pagesSearch, oauthEnv, reply>>

VARIABLES
  fetchSession, \* POST /fetch: req.session?.notionToken of the request
  fetchBody,    \* POST /fetch: req.body, [pageUrl, notionToken]
  fetchCalls,   \* POST /fetch: the fetchNotionResource calls made, [url, token]
  fetchReply,   \* POST /fetch: the response sent, [status, error]
  fpc           \* POST /fetch: position of the handler

fetchVars == <<fetchSession, fetchBody, fetchCalls, fetchReply, fpc>>

VARIABLES
  resLog,       \* POST /batch: the calls made on res from the archive part on
  apc,          \* POST /batch: position in the archive part of the handler
  appended      \* POST /batch: number of archive.append calls that returned

archiveVars == <<resLog, apc, appended>>

VARIABLES
  app,          \* App: the AppState held by useState
  fetches,      \* App: the handleFetchPage calls awaiting Promise.all, [urls, token]
  authPending,  \* App: checkAuth awaits checkAuthStatus()
  logoutPending,\* AuthStatus: the handleLogout calls awaiting logout()
  generating,   \* App: handleGeneratePdf awaits the download
  sinceLogout,  \* history: handleLogout has run and no fetch was started since
  uploads       \* LetterheadEditor: the handleLogoUpload calls awaiting
                \* fileToBase64, [letterhead, mounted]

appVars == <<app, fetches, authPending, logoutPending, generating, sinceLogout, uploads>>

VARIABLES
  handlers,     \* GET /notion/callback: the handlers awaiting the exchange, [client, state, session]
  uses          \* history: per client and state, the callbacks that verified it since it was stored

replayVars == <<handlers, uses>>

auxVars == <<composeVars, routeVars, limitVars, concVars, tableVars, oauthVars, fetchVars, archiveVars, appVars, replayVars>>

\* what the actions of one subsystem leave alone
exceptCompose == <<renderVars, callVars, pdfVars, routeVars, limitVars, concVars, tableVars, oauthVars, fetchVars, archiveVars, appVars, replayVars>>
exceptRoute == <<renderVars, callVars, composeVars, limitVars, concVars, tableVars, oauthVars, fetchVars, archiveVars, appVars, replayVars>>
exceptLimit == <<renderVars, callVars, pdfVars, composeVars, routeVars, concVars, tableVars, oauthVars, fetchVars, archiveVars, appVars, replayVars>>
exceptConc == <<renderVars, callVars, pdfVars, composeVars, routeVars, limitVars, tableVars, oauthVars, fetchVars, archiveVars, appVars, replayVars>>
exceptTable == <<renderVars, callVars, pdfVars, composeVars, routeVars, limitVars, concVars, oauthVars, fetchVars, archiveVars, appVars, replayVars>>
exceptOauth == <<renderVars, callVars, pdfVars, composeVars, routeVars, limitVars, concVars, tableVars, fetchVars, archiveVars, appVars, replayVars>>
exceptFetch == <<renderVars, callVars, pdfVars, composeVars, routeVars, limitVars, concVars, tableVars, oauthVars, archiveVars, appVars, replayVars>>
exceptArchive == <<renderVars, callVars, pdfVars, composeVars, routeVars, limitVars, concVars, tableVars, oauthVars, fetchVars, appVars, replayVars>>
exceptArchiveAux == <<composeVars, routeVars, limitVars, concVars, tableVars, oauthVars, fetchVars, appVars, replayVars>>
exceptApp == <<renderVars, callVars, pdfVars, composeVars, routeVars, limitVars, concVars, tableVars, oauthVars, fetchVars, archiveVars, replayVars>>
exceptReplay == <<renderVars, callVars, pdfVars, composeVars, routeVars, limitVars, concVars, tableVars, oauthVars, fetchVars, archiveVars, appVars>>
exceptReplayOauth == <<renderVars, callVars, pdfVars, composeVars, routeVars, limitVars, concVars, tableVars, fetchVars, archiveVars, appVars>>

vars == <<renderVars, callVars, pdfVars, auxVars>>

GroupStart == [result |-> << >>, currentList |-> EmptyList]

NoError == [name |-> "none", message |-> EmptyStr]
NoFault == [phase |-> "none", kind |-> "none"]
NoRequest ==
  [type |-> "none", title |-> EmptyStr, letterhead |-> NoLetterhead,
   composes |-> TRUE, engine |-> "ok", closeRejects |-> 0]
NoResponse == [status |-> 0, type |-> "none", error |-> EmptyStr, entries |-> << >>]
NoOutcome == [kind |-> "none", buffer |-> << >>, error |-> NoError]

IdleRender ==
  /\ blocks = << >>
  /\ rpc = "idle"
  /\ mapped = << >>
  /\ htmlBlocks = << >>
  /\ gidx = 1
  /\ glist = GroupStart
  /\ grouped = << >>
  /\ output = EmptyStr

IdleCalls ==
  /\ textItem = TextItem(EmptyStr, {}, NoHref)
  /\ richTextHtml = EmptyStr
  /\ rtPc = "idle"
  /\ block = NoTypeBlock
  /\ blockHtml = Returned(EmptyStr)
  /\ blkPc = "idle"

IdlePdf ==
  /\ pages = << >>
  /\ letterhead = NoLetterhead
  /\ bpc = "idle"
  /\ bi = 1
  /\ pdfBuffers = << >>
  /\ response = NoResponse
  /\ gpc = "idle"
  /\ request = NoRequest
  /\ browser = 0
  /\ gError = NoError
  /\ gOutcome = NoOutcome
  /\ closeCalls = 0
  /\ instances = << >>
  /\ fault = NoFault

IdleCompose ==
  /\ docRequest = NoDocRequest
  /\ document = Returned(EmptyStr)
  /\ cpc = "idle"

IdleRoute ==
  /\ body = NoBody
  /\ hpc = "idle"

IdleLimit ==
  /\ hits = NoHits
  /\ served = NoneServed
  /\ arrived = 0
  /\ outcome = NoOutcomeYet

IdleConc ==
  /\ renders = [i \in 1..MaxRenders |-> NoRender]
  /\ engines = << >>

IdleTable ==
  /\ resource = NoResource
  /\ hiddenColumns = {}
  /\ tableHtml = EmptyStr
  /\ tpc = "idle"

IdleOauth ==
  /\ session = [c \in Clients |-> NoSession]
  /\ callback = EmptyBag
  /\ issued = {}
  /\ exchanges = {}
  /\ tokenWrites = {}
  /\ pagesSearch = [c \in Clients |-> 0]
  /\ oauthEnv = ConfiguredEnv
  /\ reply = NoReply

IdleFetch ==
  /\ fetchSession = EmptyStr
  /\ fetchBody = [pageUrl |-> EmptyStr, notionToken |-> EmptyStr]
  /\ fetchCalls = << >>
  /\ fetchReply = [status |-> 0, error |-> EmptyStr]
  /\ fpc = "idle"

IdleArchive ==
  /\ resLog = << >>
  /\ apc = "idle"
  /\ appended = 0

IdleApp ==
  /\ app = InitialAppState
  /\ fetches = {}
  /\ authPending = FALSE
  /\ logoutPending = 0
  /\ generating = FALSE
  /\ sinceLogout = FALSE
  /\ uploads = {}

IdleReplay ==
  /\ handlers = << >>
  /\ uses = [c \in Clients |-> [st \in OAuthStates |-> 0]]

IdleAux == IdleCompose /\ IdleRoute /\ IdleLimit /\ IdleConc /\ IdleTable /\ IdleOauth /\ IdleFetch /\ IdleArchive /\ IdleApp /\ IdleReplay

IdleExceptCompose == IdleRender /\ IdleCalls /\ IdlePdf /\ IdleRoute /\ IdleLimit /\ IdleConc /\ IdleTable /\ IdleOauth /\ IdleFetch /\ IdleArchive /\ IdleApp /\ IdleReplay
IdleExceptRoute == IdleRender /\ IdleCalls /\ IdleCompose /\ IdleLimit /\ IdleConc /\ IdleTable /\ IdleOauth /\ IdleFetch /\ IdleArchive /\ IdleApp /\ IdleReplay
IdleExceptLimit == IdleRender /\ IdleCalls /\ IdlePdf /\ IdleCompose /\ IdleRoute /\ IdleConc /\ IdleTable /\ IdleOauth /\ IdleFetch /\ IdleArchive /\ IdleApp /\ IdleReplay
IdleExceptConc == IdleRender /\ IdleCalls /\ IdlePdf /\ IdleCompose /\ IdleRoute /\ IdleLimit /\ IdleTable /\ IdleOauth /\ IdleFetch /\ IdleArchive /\ IdleApp /\ IdleReplay
IdleExceptTable == IdleRender /\ IdleCalls /\ IdlePdf /\ IdleCompose /\ IdleRoute /\ IdleLimit /\ IdleConc /\ IdleOauth /\ IdleFetch /\ IdleArchive /\ IdleApp /\ IdleReplay
IdleExceptOauth == IdleRender /\ IdleCalls /\ IdlePdf /\ IdleCompose /\ IdleRoute /\ IdleLimit /\ IdleConc /\ IdleTable /\ IdleFetch /\ IdleArchive /\ IdleApp /\ IdleReplay
IdleExceptFetch == IdleRender /\ IdleCalls /\ IdlePdf /\ IdleCompose /\ IdleRoute /\ IdleLimit /\ IdleConc /\ IdleTable /\ IdleOauth /\ IdleArchive /\ IdleApp /\ IdleReplay
IdleExceptArchive == IdleRender /\ IdleCalls /\ IdlePdf /\ IdleCompose /\ IdleRoute /\ IdleLimit /\ IdleConc /\ IdleTable /\ IdleOauth /\ IdleFetch /\ IdleApp /\ IdleReplay
IdleExceptApp == IdleRender /\ IdleCalls /\ IdlePdf /\ IdleCompose /\ IdleRoute /\ IdleLimit /\ IdleConc /\ IdleTable /\ IdleOauth /\ IdleFetch /\ IdleArchive /\ IdleReplay
IdleExceptReplay == IdleRender /\ IdleCalls /\ IdlePdf /\ IdleCompose /\ IdleRoute /\ IdleLimit /\ IdleConc /\ IdleTable /\ IdleOauth /\ IdleFetch /\ IdleArchive /\ IdleApp

InitRender ==
  /\ blocks \in BlockLists
  /\ rpc = "map"
  /\ mapped = << >>
  /\ htmlBlocks = << >>
  /\ gidx = 1
  /\ glist = GroupStart
  /\ grouped = << >>
  /\ output = EmptyStr
  /\ IdleCalls
  /\ IdlePdf
  /\ IdleAux

\* blocks.map(renderBlock): one call of the callback
MapBlock ==
  /\ rpc = "map"
  /\ Len(mapped) < Len(blocks)
  /\ LET r == renderBlock(blocks[Len(mapped) + 1]) IN
       IF r.threw
       THEN /\ rpc' = "threw"
            /\ UNCHANGED mapped
       ELSE /\ mapped' = Append(mapped, r.value)
            /\ UNCHANGED rpc
  /\ UNCHANGED <<blocks, htmlBlocks, gidx, glist, grouped, output, callVars, pdfVars, auxVars>>

\* .filter(html => html.trim() !== '')
FilterBlocks ==
  /\ rpc = "map"
  /\ Len(mapped) = Len(blocks)
  /\ htmlBlocks' = SelectSeq(mapped, nonBlank)
  /\ rpc' = "group"
  /\ UNCHANGED <<blocks, mapped, gidx, glist, grouped, output, callVars, pdfVars, auxVars>>

\* groupLists: one iteration of the forEach
GroupBlock ==
  /\ rpc = "group"
  /\ gidx <= Len(htmlBlocks)
  /\ glist' = forEachBlock(glist, htmlBlocks[gidx])
  /\ gidx' = gidx + 1
  /\ UNCHANGED <<blocks, rpc, mapped, htmlBlocks, grouped, output, callVars, pdfVars, auxVars>>

\* groupLists: close any remaining list and return
GroupReturn ==
  /\ rpc = "group"
  /\ gidx > Len(htmlBlocks)
  /\ grouped' = closeRemaining(glist)
  /\ rpc' = "join"
  /\ UNCHANGED <<blocks, mapped, htmlBlocks, gidx, glist, output, callVars, pdfVars, auxVars>>

\* return groupedBlocks.join('\n')
JoinBlocks ==
  /\ rpc = "join"
  /\ output' = join(grouped, <<"\n">>)
  /\ rpc' = "done"
  /\ UNCHANGED <<blocks, mapped, htmlBlocks, gidx, glist, grouped, callVars, pdfVars, auxVars>>

NextRender == MapBlock \/ FilterBlocks \/ GroupBlock \/ GroupReturn \/ JoinBlocks

SpecRender == InitRender /\ [][NextRender]_vars

(***************************************************************************)
(* renderRichText and renderBlock as single calls over their input spaces  *)
(***************************************************************************)
Texts == {EmptyStr, <<"a">>}
Hrefs == {NoHref, "https://example.com"}

TextItems ==
  {TextItem(t, a, h) : t \in Texts, a \in SUBSET AnnotationNames, h \in Hrefs}

InitRichText ==
  /\ textItem \in TextItems
  /\ richTextHtml = EmptyStr
  /\ rtPc = "called"
  /\ block = NoTypeBlock
  /\ blockHtml = Returned(EmptyStr)
  /\ blkPc = "idle"
  /\ IdleRender
  /\ IdlePdf
  /\ IdleAux

\* renderRichText([textItem])
CallRenderRichText ==
  /\ rtPc = "called"
  /\ richTextHtml' = renderRichText([defined |-> TRUE, items |-> <<textItem>>])
  /\ rtPc' = "returned"
  /\ UNCHANGED <<textItem, block, blockHtml, blkPc, renderVars, pdfVars, auxVars>>

NextRichText == CallRenderRichText

SpecRichText == InitRichText /\ [][NextRichText]_vars

BlockTypes == SupportedTypes \cup UnsupportedTypes \cup {"mystery", "ai_block"}

Payloads ==
  {MissingPayload,
   Payload([defined |-> FALSE, items |-> << >>]),
   Payload([defined |-> TRUE, items |-> << >>]),
   Payload(PlainText(<<"a">>)),
   Payload([defined |-> TRUE,
            items |-> <<TextItem(<<"a">>, {"bold"}, NoHref), NullTextItem>>]),
   [present |-> TRUE, rich_text |-> PlainText(<<"a">>), checked |-> TRUE,
    language |-> "javascript", icon |-> "pin"]}

AllBlocks == {Block(t, p) : t \in BlockTypes, p \in Payloads} \cup {NoTypeBlock}

InitBlock ==
  /\ block \in AllBlocks
  /\ blockHtml = Returned(EmptyStr)
  /\ blkPc = "called"
  /\ textItem = TextItem(EmptyStr, {}, NoHref)
  /\ richTextHtml = EmptyStr
  /\ rtPc = "idle"
  /\ IdleRender
  /\ IdlePdf
  /\ IdleAux

\* renderBlock(block)
CallRenderBlock ==
  /\ blkPc = "called"
  /\ blockHtml' = renderBlock(block)
  /\ blkPc' = "done"
  /\ UNCHANGED <<block, textItem, richTextHtml, rtPc, renderVars, pdfVars, auxVars>>

NextBlock == CallRenderBlock

SpecBlock == InitBlock /\ [][NextBlock]_vars

(***************************************************************************)
(* Properties of the rendering pipeline                                    *)
(***************************************************************************)
\* the list kind the block renderer gave the fragment of a block
\* (templateRenderer.ts:90-98); NoList for every other fragment
fragmentKind(b) ==
  IF b.hasType /\ ~renderBlockSwitch(b).threw /\ b.type = "bulleted_list_item" THEN "ul"
  ELSE IF b.hasType /\ ~renderBlockSwitch(b).threw /\ b.type = "numbered_list_item" THEN "ol"
  ELSE NoList

keepsFragment(b) == nonBlank(renderBlock(b).value)

\* the blocks whose fragments reach groupLists, aligned with htmlBlocks
keptBlocks == SelectSeq(blocks, keepsFragment)

IsListItemFragment(s) == startsWith(s, "<li>") \/ startsWith(s, NumberedOpen)

IsContainer(s) == startsWith(s, "<ul>") \/ startsWith(s, "<ol>")

unwrapContainer(s) == IF IsContainer(s) THEN SubSeq(s, 2, Len(s) - 1) ELSE s

\* the output with every container replaced by its items
RECURSIVE flatten(_)
flatten(list) ==
  IF Len(list) = 0 THEN EmptyStr
  ELSE unwrapContainer(Head(list)) \o flatten(Tail(list))

\* C4: no list-item fragment is emitted at the top level of the output of
\* groupLists, neither while the pass runs nor in the value it returns
C4_NoBareListItem ==
  /\ \A k \in 1..Len(glist.result) : ~IsListItemFragment(glist.result[k])
  /\ \A k \in 1..Len(grouped) : ~IsListItemFragment(grouped[k])

C4_Witness ==
  /\ rpc = "done"
  /\ Len(htmlBlocks) >= 3
  /\ \E k \in 1..Len(htmlBlocks) : startsWith(htmlBlocks[k], "<li>")
  /\ \E k \in 1..Len(htmlBlocks) : startsWith(htmlBlocks[k], NumberedOpen)
  /\ \E k \in 1..Len(grouped) : IsContainer(grouped[k])

\* grouping by the kind of each fragment: one container per maximal run of
\* adjacent list items of one kind, every other fragment emitted unwrapped
RECURSIVE groupByKind(_, _, _)
groupByKind(st, frags, kinds) ==
  IF Len(frags) = 0 THEN closeRemaining(st)
  ELSE groupByKind(IF Head(kinds) # NoList
                   THEN pushListItem(st, Head(frags), Head(kinds))
                   ELSE pushOther(st, Head(frags)),
                   Tail(frags), Tail(kinds))

kindsOf(bs) == [k \in 1..Len(bs) |-> fragmentKind(bs[k])]

\* C5: groupLists emits exactly one container per maximal run of adjacent
\* list items of the same kind, and every non-list fragment unwrapped
C5_OneContainerPerRun ==
  rpc \in {"join", "done"} =>
    grouped = groupByKind(GroupStart, htmlBlocks, kindsOf(keptBlocks))

\* C6: replacing each container of the output by its items gives the input
\* sequence, and after the end-of-sequence flush nothing is left buffered
C6_OrderPreserved ==
  /\ rpc = "group" =>
       flatten(glist.result) \o join(glist.currentList.items, EmptyStr)
         = join(SubSeq(htmlBlocks, 1, gidx - 1), EmptyStr)
  /\ rpc \in {"join", "done"} =>
       flatten(grouped) = join(htmlBlocks, EmptyStr)

C6_Witness ==
  /\ rpc = "done"
  /\ Len(htmlBlocks) >= 3
  /\ IsListItemFragment(htmlBlocks[Len(htmlBlocks)])
  /\ glist.currentList.type # NoList
  /\ Len(grouped) >= 2

IsPlaceholder(s) == startsWith(s, UnsupportedPrefix) \/ startsWith(s, UnknownPrefix)

hasPlaceholderKind(b) == b.hasType /\ b.type \notin SupportedTypes

\* C7: groupLists never receives a placeholder fragment, and the kind tag of
\* an unsupported or unknown block occurs nowhere in the output
C7_PlaceholdersFiltered ==
  /\ rpc \in {"group", "join", "done"} =>
       \A k \in 1..Len(htmlBlocks) : ~IsPlaceholder(htmlBlocks[k])
  /\ rpc = "done" =>
       \A k \in 1..Len(blocks) :
         hasPlaceholderKind(blocks[k]) => ~includes(output, blocks[k].type)

\* a block whose kind-specific rendering faults internally
isFaulty(b) == b.hasType /\ renderBlockSwitch(b).threw

\* the fragment of a block, the error placeholder standing for a faulty one
expectedFragment(b) ==
  IF isFaulty(b) THEN ErrorPlaceholder ELSE renderBlock_nocatch(b).value

expectedFragments == [k \in 1..Len(blocks) |-> expectedFragment(blocks[k])]

\* C10: a faulty block never aborts renderBlocks, and the fragments of the
\* other blocks are those obtained with the error placeholder in its place
C10_FaultIsolated ==
  /\ rpc # "threw"
  /\ \A k \in 1..Len(mapped) : mapped[k] = expectedFragments[k]
  /\ rpc \in {"group", "join", "done"} =>
       htmlBlocks = SelectSeq(expectedFragments, nonBlank)
  /\ rpc = "done" =>
       /\ flatten(grouped) = join(SelectSeq(expectedFragments, nonBlank), EmptyStr)
       /\ output = join(grouped, <<"\n">>)

C10_Witness ==
  /\ rpc = "done"
  /\ \E k \in 1..(Len(blocks) - 1) :
       /\ isFaulty(blocks[k])
       /\ ~isFaulty(blocks[k + 1])
       /\ keepsFragment(blocks[k + 1])
       /\ includes(output, "a")

\* C9: renderBlock returns a string and never throws
C9_RenderBlockTotal ==
  blkPc = "done" =>
    /\ ~blockHtml.threw
    /\ DOMAIN blockHtml.value = 1..Len(blockHtml.value)

C9_Witness ==
  /\ blkPc = "done"
  /\ block.hasType
  /\ block.type \in TextTypes
  /\ ~block.payload.present
  /\ blockHtml.value = ErrorPlaceholder

\* C8: the wrappers nest in the fixed order monospace, bold, italic,
\* strikethrough, underline from the inside out, the hyperlink outermost
C8_FixedPrecedence ==
  rtPc = "returned" =>
    richTextHtml =
      renderLink(applyAnnotations(textItem.plain_text, textItem.annotations,
                   <<"code", "bold", "italic", "strikethrough", "underline">>),
                 textItem.href)

(***************************************************************************)
(* generatePdf (pdfGenerator.ts, the page-or-database version) and the     *)
(* batch route (routes/pdf.ts, POST /batch)                                *)
(*                                                                         *)
(* Each item of req.body.pages carries, besides its type and title, what   *)
(* the engine will do while it is rendered: `engine` names the call that   *)
(* fails and how, `closeRejects` how many of the first browser.close()     *)
(* calls reject.  browser.close() ends the browser process whether or not  *)
(* its promise rejects.                                                    *)
(***************************************************************************)
EngineScripts ==
  {"ok", "launch_timeout", "newPage_error", "setContent_error",
   "setContent_timeout", "pdf_error", "pdf_timeout"}

\* the phase of each engine call
PhaseOf(step) ==
  CASE step = "launch" -> "launch"
    [] step = "newPage" -> "load"
    [] step = "setContent" -> "load"
    [] step = "pdf" -> "rasterize"
    [] OTHER -> "none"

\* "ok", "error" or "timeout": what the engine call `step` does under a script
EngineResult(script, step) ==
  CASE script = "launch_timeout" /\ step = "launch" -> "timeout"
    [] script = "newPage_error" /\ step = "newPage" -> "error"
    [] script = "setContent_error" /\ step = "setContent" -> "error"
    [] script = "setContent_timeout" /\ step = "setContent" -> "timeout"
    [] script = "pdf_error" /\ step = "pdf" -> "error"
    [] script = "pdf_timeout" /\ step = "pdf" -> "timeout"
    [] OTHER -> "ok"

\* the error object the engine rejects with
EngineError(kind) ==
  IF kind = "timeout"
  THEN [name |-> "TimeoutError", message |-> <<"engine message">>]
  ELSE [name |-> "Error", message |-> <<"engine message">>]

CloseError == [name |-> "Error", message |-> <<"close message">>]
ComposeError == [name |-> "TypeError", message |-> <<"compose message">>]

\* new Error(`Failed to generate PDF: ${error.message}`), pdfGenerator.ts catch clause
WrappedError(error) ==
  [name |-> "Error", message |-> <<"Failed to generate PDF: ">> \o error.message]

\* a variant of the guard that never closes in the catch clause
catchCloses_never(b) == FALSE

\* if (browser), in the catch clause
catchCloses(b) == b # 0

PageItem(title, blocksIsArray, script, rejects) ==
  [type |-> "page", title |-> title, blocksIsArray |-> blocksIsArray,
   engine |-> script, closeRejects |-> rejects]

DatabaseItem(title, script) ==
  [type |-> "database", title |-> title, blocksIsArray |-> FALSE,
   engine |-> script, closeRejects |-> 0]

BatchItems ==
  {PageItem(<<"A">>, TRUE, sc, 0) : sc \in EngineScripts}
  \cup {PageItem(<<"A">>, TRUE, "ok", 1), PageItem(<<"A">>, TRUE, "ok", 2),
        PageItem(<<"A">>, TRUE, "pdf_error", 1),
        PageItem(EmptyStr, FALSE, "ok", 0),
        DatabaseItem(EmptyStr, "ok"),
        PageItem(<<"Q", "3", " ", "(e-acute)", "A">>, TRUE, "ok", 0),
        DatabaseItem(<<"q", "3", "-", "_", "a">>, "ok")}

PageLists == UNION {[1..n -> BatchItems] : n \in 0..MaxPages}

\* req.body.letterhead of a batch: a plain name, a missing name and a name
\* that carries a tag
Letterheads ==
  {Letterhead(<<"Acme">>, EmptyStr), NoLetterhead,
   Letterhead(<<"Acme", " ", "<Corp>">>, EmptyStr)}

\* the decimal digits of a small number, as one token
decimal(n) ==
  CASE n = 1 -> "1" [] n = 2 -> "2" [] n = 3 -> "3" [] n = 4 -> "4"
    [] n = 5 -> "5" [] n = 6 -> "6" [] n = 7 -> "7" [] n = 8 -> "8"
    [] n = 9 -> "9" [] OTHER -> "0"

\* item.title || `Untitled-${i + 1}` and item.title || `Database-${i + 1}`
\* (bi is i + 1)
batchTitle(item, i) ==
  IF item.title # EmptyStr THEN item.title
  ELSE IF item.type = "database" THEN <<"Database", "-", decimal(i)>>
  ELSE <<"Untitled", "-", decimal(i)>>

\* the tokens of a title that consist of ASCII letters and digits only; a
\* blank, a hyphen, an underscore, an accented letter and markup do not
AlnumTokens ==
  {"A", "Q", "q", "a", "Untitled", "Database", "Report",
   "0", "1", "2", "3", "4", "5", "6", "7", "8", "9"}

\* one token through .replace(/[^a-z0-9]/gi, '_')
replaceToken(tok) == IF tok \in AlnumTokens THEN tok ELSE "_"

\* one token through .toLowerCase()
lowerToken(tok) ==
  CASE tok = "A" -> "a"
    [] tok = "Q" -> "q"
    [] tok = "Untitled" -> "untitled"
    [] tok = "Database" -> "database"
    [] tok = "Report" -> "report"
    [] OTHER -> tok

\* a variant that replaces the characters and keeps the case
sanitizeToken_keepCase(tok) == replaceToken(tok)

\* one token through .replace(/[^a-z0-9]/gi, '_').toLowerCase()
sanitizeToken(tok) == lowerToken(replaceToken(tok))

sanitizeTitle(title) == [k \in 1..Len(title) |-> sanitizeToken(title[k])]

\* the PdfGenerationRequest built for pages[i]; composes is FALSE when
\* generateHtmlDocument raises on it (blocks is not an array)
batchRequest(item, i) ==
  [type |-> item.type,
   title |-> batchTitle(item, i),
   letterhead |-> letterhead,
   composes |-> (item.type = "database" \/ item.blocksIsArray),
   engine |-> item.engine,
   closeRejects |-> item.closeRejects]

\* Buffer.from(pdf): the artifact of a request
pdfOf(req) == <<"pdf", req.type, req.title>>

InitBatch ==
  /\ pages \in PageLists
  /\ letterhead \in Letterheads
  /\ bpc = "validate"
  /\ bi = 1
  /\ pdfBuffers = << >>
  /\ response = NoResponse
  /\ gpc = "idle"
  /\ request = NoRequest
  /\ browser = 0
  /\ gError = NoError
  /\ gOutcome = NoOutcome
  /\ closeCalls = 0
  /\ instances = << >>
  /\ fault = NoFault
  /\ IdleRender
  /\ IdleCalls
  /\ IdleAux

batchFrame == <<pages, letterhead, bpc, bi, pdfBuffers, response>>
generateFrame == <<gpc, request, browser, gError, gOutcome, closeCalls, instances, fault>>

\* routes/pdf.ts, POST /batch: the validation of pages and letterhead
BatchValidate ==
  /\ bpc = "validate"
  /\ IF Len(pages) = 0
     THEN /\ response' = [status |-> 400, type |-> "json",
                          error |-> <<"Missing or invalid field: pages must be a non-empty array">>,
                          entries |-> << >>]
          /\ bpc' = "done"
     ELSE IF letterhead.companyName = EmptyStr
     THEN /\ response' = [status |-> 400, type |-> "json",
                          error |-> <<"Missing required field: letterhead.companyName">>,
                          entries |-> << >>]
          /\ bpc' = "done"
     ELSE /\ bpc' = "loop"
          /\ UNCHANGED response
  /\ UNCHANGED <<pages, letterhead, bi, pdfBuffers, generateFrame, renderVars, callVars, auxVars>>

\* the loop body up to `await generatePdf(pdfRequest)`
BatchCallGenerate ==
  /\ bpc = "loop"
  /\ bi <= Len(pages)
  /\ request' = batchRequest(pages[bi], bi)
  /\ gpc' = "html"
  /\ browser' = 0
  /\ gError' = NoError
  /\ gOutcome' = NoOutcome
  /\ closeCalls' = 0
  /\ fault' = NoFault
  /\ bpc' = "await"
  /\ UNCHANGED <<pages, letterhead, bi, pdfBuffers, response, instances, renderVars, callVars, auxVars>>

\* a variant that launches the browser without composing first
GenerateHtml_launchFirst ==
  /\ gpc = "html"
  /\ gpc' = "launch"
  /\ UNCHANGED <<request, browser, gError, fault, gOutcome, closeCalls, instances,
                 batchFrame, renderVars, callVars, auxVars>>

\* generatePdf: const html = generateHtmlDocument(request)
GenerateHtml ==
  /\ gpc = "html"
  /\ IF request.composes
     THEN /\ gpc' = "launch"
          /\ UNCHANGED <<gError, fault>>
     ELSE /\ gpc' = "catch"
          /\ gError' = ComposeError
          /\ fault' = [phase |-> "compose", kind |-> "error"]
  /\ UNCHANGED <<request, browser, gOutcome, closeCalls, instances,
                 batchFrame, renderVars, callVars, auxVars>>

\* generatePdf: browser = await puppeteer.launch(...)
LaunchBrowser ==
  /\ gpc = "launch"
  /\ LET res == EngineResult(request.engine, "launch") IN
       IF res = "ok"
       THEN /\ instances' = Append(instances, "open")
            /\ browser' = Len(instances) + 1
            /\ gpc' = "newPage"
            /\ UNCHANGED <<gError, fault>>
       ELSE /\ gError' = EngineError(res)
            /\ fault' = [phase |-> PhaseOf("launch"), kind |-> res]
            /\ gpc' = "catch"
            /\ UNCHANGED <<instances, browser>>
  /\ UNCHANGED <<request, gOutcome, closeCalls, batchFrame, renderVars, callVars, auxVars>>

\* an awaited call on the page: go on, or enter the catch clause
PageCall(step, next) ==
  /\ LET res == EngineResult(request.engine, step) IN
       IF res = "ok"
       THEN /\ gpc' = next
            /\ UNCHANGED <<gError, fault>>
       ELSE /\ gError' = EngineError(res)
            /\ fault' = [phase |-> PhaseOf(step), kind |-> res]
            /\ gpc' = "catch"
  /\ UNCHANGED <<request, browser, gOutcome, closeCalls, instances,
                 batchFrame, renderVars, callVars, auxVars>>

\* generatePdf: const page = await browser.newPage()
NewPage ==
  /\ gpc = "newPage"
  /\ PageCall("newPage", "setContent")

\* generatePdf: await page.setContent(html, { waitUntil: 'networkidle0' })
SetContent ==
  /\ gpc = "setContent"
  /\ PageCall("setContent", "pdf")

\* generatePdf: const pdf = await page.pdf({ format: 'A4', ... })
PrintPdf ==
  /\ gpc = "pdf"
  /\ PageCall("pdf", "close")

\* generatePdf: await browser.close(); return Buffer.from(pdf)
CloseAndReturn ==
  /\ gpc = "close"
  /\ instances' = [instances EXCEPT ![browser] = "closed"]
  /\ closeCalls' = closeCalls + 1
  /\ IF closeCalls + 1 <= request.closeRejects
     THEN /\ gError' = CloseError
          /\ fault' = [phase |-> "close", kind |-> "error"]
          /\ gpc' = "catch"
          /\ UNCHANGED gOutcome
     ELSE /\ gOutcome' = [kind |-> "buffer", buffer |-> pdfOf(request), error |-> NoError]
          /\ gpc' = "returned"
          /\ UNCHANGED <<gError, fault>>
  /\ UNCHANGED <<request, browser, batchFrame, renderVars, callVars, auxVars>>

\* generatePdf: the catch clause
CatchError ==
  /\ gpc = "catch"
  /\ IF catchCloses(browser)
     THEN /\ instances' = [instances EXCEPT ![browser] = "closed"]
          /\ closeCalls' = closeCalls + 1
          /\ gOutcome' = [kind |-> "error", buffer |-> << >>,
                          error |-> IF closeCalls + 1 <= request.closeRejects
                                    THEN CloseError
                                    ELSE WrappedError(gError)]
     ELSE /\ gOutcome' = [kind |-> "error", buffer |-> << >>,
                          error |-> WrappedError(gError)]
          /\ UNCHANGED <<instances, closeCalls>>
  /\ gpc' = "threw"
  /\ UNCHANGED <<request, browser, gError, fault, batchFrame, renderVars, callVars, auxVars>>

\* a variant that puts the new buffer in front of the collected ones
BatchPushBuffer_unshift ==
  /\ bpc = "await"
  /\ gpc = "returned"
  /\ pdfBuffers' = <<[filename |-> sanitizeTitle(batchTitle(pages[bi], bi)) \o <<".pdf">>,
                      buffer |-> gOutcome.buffer]>> \o pdfBuffers
  /\ bi' = bi + 1
  /\ bpc' = "loop"
  /\ gpc' = "idle"
  /\ UNCHANGED <<pages, letterhead, response, request, browser, gError, gOutcome,
                 closeCalls, instances, fault, renderVars, callVars, auxVars>>

\* the loop body after the await: sanitize the title, push the buffer
BatchPushBuffer ==
  /\ bpc = "await"
  /\ gpc = "returned"
  /\ pdfBuffers' = Append(pdfBuffers,
                          [filename |-> sanitizeTitle(batchTitle(pages[bi], bi)) \o <<".pdf">>,
                           buffer |-> gOutcome.buffer])
  /\ bi' = bi + 1
  /\ bpc' = "loop"
  /\ gpc' = "idle"
  /\ UNCHANGED <<pages, letterhead, response, request, browser, gError, gOutcome,
                 closeCalls, instances, fault, renderVars, callVars, auxVars>>

\* the handler's catch clause: res.status(500).json({ error: error.message })
BatchCatch ==
  /\ bpc = "await"
  /\ gpc = "threw"
  /\ response' = [status |-> 500, type |-> "json",
                  error |-> gOutcome.error.message, entries |-> << >>]
  /\ bpc' = "done"
  /\ gpc' = "idle"
  /\ UNCHANGED <<pages, letterhead, bi, pdfBuffers, request, browser, gError, gOutcome,
                 closeCalls, instances, fault, renderVars, callVars, auxVars>>

\* after the loop: create the archive, append every buffer, finalize
BatchArchive ==
  /\ bpc = "loop"
  /\ bi > Len(pages)
  /\ response' = [status |-> 200, type |-> "zip", error |-> EmptyStr,
                  entries |-> pdfBuffers]
  /\ bpc' = "done"
  /\ UNCHANGED <<pages, letterhead, bi, pdfBuffers, generateFrame, renderVars, callVars, auxVars>>

NextBatch ==
  \/ BatchValidate
  \/ BatchCallGenerate
  \/ GenerateHtml
  \/ LaunchBrowser
  \/ NewPage
  \/ SetContent
  \/ PrintPdf
  \/ CloseAndReturn
  \/ CatchError
  \/ BatchPushBuffer
  \/ BatchCatch
  \/ BatchArchive

SpecBatch == InitBatch /\ [][NextBatch]_vars

(***************************************************************************)
(* Properties of generatePdf and of the batch route                        *)
(***************************************************************************)
\* the render of an item fails: its composition raises, an engine call
\* fails or times out, or the close on the success path rejects
renderFails(item) ==
  \/ ~(item.type = "database" \/ item.blocksIsArray)
  \/ item.engine # "ok"
  \/ item.closeRejects >= 1

\* the archive entries of the items from index i on whose render succeeds
RECURSIVE successEntries(_)
successEntries(i) ==
  IF i > Len(pages) THEN << >>
  ELSE IF renderFails(pages[i]) THEN successEntries(i + 1)
  ELSE <<[filename |-> sanitizeTitle(batchTitle(pages[i], i)) \o <<".pdf">>,
          buffer |-> pdfOf(batchRequest(pages[i], i))]>> \o successEntries(i + 1)

\* C1: the archive of a batch contains exactly the artifacts of the
\* documents whose render did not fail, whatever documents failed
C1_PartialSuccess ==
  (bpc = "done" /\ response.status # 400) =>
    /\ response.type = "zip"
    /\ response.entries = successEntries(1)

\* C2: once generatePdf has returned or thrown, the browser instance it
\* launched is closed; no instance stays open outside a running call
C2_BrowserReleased ==
  /\ (gpc \in {"returned", "threw"} /\ browser # 0) => instances[browser] = "closed"
  /\ gpc \in {"idle", "returned", "threw"} =>
       \A k \in 1..Len(instances) : instances[k] = "closed"

C2_Witness ==
  /\ gpc = "threw"
  /\ browser # 0
  /\ fault.phase \in {"load", "rasterize"}
  /\ instances[browser] = "closed"
  /\ Len(instances) >= 2

\* C3: a timeout surfaces as a timeout fault tagged with the phase in which
\* it occurred, with the engine instance released
C3_TimeoutTagged ==
  (gpc = "threw" /\ fault.kind = "timeout") =>
    /\ gOutcome.error.name = "TimeoutError"
    /\ "phase" \in DOMAIN gOutcome.error
    /\ gOutcome.error.phase = fault.phase
    /\ \A k \in 1..Len(instances) : instances[k] = "closed"

(***************************************************************************)
(* generatePageHtmlDocument as one call                                    *)
(***************************************************************************)
DocRequests ==
  {PageRequest(t, b, l, p, h) :
     t \in DocTitles, b \in DocBlocks, l \in DocLetterheads,
     p \in DocProperties, h \in DocHidden}

InitCompose ==
  /\ docRequest \in DocRequests
  /\ document = Returned(EmptyStr)
  /\ cpc = "called"
  /\ IdleExceptCompose

CallGeneratePageHtmlDocument ==
  /\ cpc = "called"
  /\ document' = generatePageHtmlDocument(docRequest)
  /\ cpc' = "done"
  /\ UNCHANGED <<docRequest, exceptCompose>>

NextCompose == CallGeneratePageHtmlDocument

SpecCompose == InitCompose /\ [][NextCompose]_vars

(***************************************************************************)
(* Properties of the composed document                                     *)
(***************************************************************************)
\* the tokens of the text inputs that contain '<', '>' or '&'
MarkupTokens == {"<script>", "<Corp>", "&"}

\* C11: in the composed document no externally sourced text value that
\* contains '<', '>' or '&' appears unescaped; the company name
\* 'Acme <Corp>' is not shown with its raw '<Corp>'
C11_TextEscaped ==
  (cpc = "done" /\ ~document.threw)
    => \A tok \in MarkupTokens : ~includes(document.value, tok)

(***************************************************************************)
(* POST /generate, routes/pdf.ts (part_001:210-303)                        *)
(***************************************************************************)
\* one token through encodeURIComponent
encodeToken(tok) ==
  CASE tok = " " -> "%20"
    [] tok = "<" -> "%3C"
    [] tok = ">" -> "%3E"
    [] tok = "&" -> "%26"
    [] OTHER -> tok

encodeURIComponent(s) == [k \in 1..Len(s) |-> encodeToken(s[k])]

\* filename = database.title || 'database-export' and title || 'notion-export';
\* the title of the body stands for database.title in a database request
generateFilename(b) ==
  IF b.title # EmptyStr THEN b.title
  ELSE IF b.type = "database" THEN <<"database-export">>
  ELSE <<"notion-export">>

\* the PdfGenerationRequest built from the body
generateRequest(b, sanitized) ==
  [type |-> IF b.type = "database" THEN "database" ELSE "page",
   title |-> IF b.type = "database" THEN b.title
             ELSE IF b.title # EmptyStr THEN b.title ELSE <<"Untitled">>,
   letterhead |-> sanitized,
   composes |-> TRUE,
   engine |-> b.engine,
   closeRejects |-> b.closeRejects]

BadRequest(error) ==
  [status |-> 400, type |-> "json", error |-> <<error>>, entries |-> << >>]

\* the error of the validations before generatePdf, "" when they pass
generateError(b) ==
  IF ~validateLetterheadData(b.letterhead).valid THEN "Invalid letterhead data"
  ELSE IF b.type = "page" /\ b.hiddenProperties.present
          /\ ~validatePropertyArray(b.hiddenProperties)
  THEN "Invalid hidden properties"
  ELSE IF b.type = "database" /\ b.hiddenColumns.present
          /\ ~validatePropertyArray(b.hiddenColumns)
  THEN "Invalid hidden columns"
  ELSE IF b.type = "database" /\ ~b.hasDatabase
  THEN "Missing required field: database"
  ELSE IF b.type # "database" /\ ~b.blocksIsArray
  THEN "Missing or invalid field: blocks must be an array"
  ELSE ""

InitGenerate ==
  /\ body \in Bodies
  /\ hpc = "validate"
  /\ IdlePdf
  /\ IdleExceptRoute

\* the handler up to `await generatePdf(pdfRequest)`, or its 400 response
GenerateValidate ==
  /\ hpc = "validate"
  /\ IF generateError(body) # ""
     THEN /\ response' = BadRequest(generateError(body))
          /\ hpc' = "done"
          /\ UNCHANGED <<request, gpc>>
     ELSE /\ request' = generateRequest(body, validateLetterheadData(body.letterhead).sanitized)
          /\ gpc' = "html"
          /\ hpc' = "await"
          /\ UNCHANGED response
  /\ UNCHANGED <<pages, letterhead, bpc, bi, pdfBuffers, browser, gError, gOutcome,
                 closeCalls, instances, fault, body, exceptRoute>>

\* res.send(pdfBuffer) with the download headers
GenerateSend ==
  /\ hpc = "await"
  /\ gpc = "returned"
  /\ response' = [status |-> 200, type |-> "pdf", error |-> EmptyStr,
                  entries |-> <<[filename |-> encodeURIComponent(generateFilename(body))
                                              \o <<".pdf">>,
                                 buffer |-> gOutcome.buffer]>>]
  /\ hpc' = "done"
  /\ gpc' = "idle"
  /\ UNCHANGED <<pages, letterhead, bpc, bi, pdfBuffers, request, browser, gError,
                 gOutcome, closeCalls, instances, fault, body, exceptRoute>>

\* the handler's catch clause: res.status(500).json({ error: error.message })
GenerateCatch ==
  /\ hpc = "await"
  /\ gpc = "threw"
  /\ response' = [status |-> 500, type |-> "json",
                  error |-> gOutcome.error.message, entries |-> << >>]
  /\ hpc' = "done"
  /\ gpc' = "idle"
  /\ UNCHANGED <<pages, letterhead, bpc, bi, pdfBuffers, request, browser, gError,
                 gOutcome, closeCalls, instances, fault, body, exceptRoute>>

NextGenerate ==
  \/ GenerateValidate
  \/ GenerateHtml
  \/ LaunchBrowser
  \/ NewPage
  \/ SetContent
  \/ PrintPdf
  \/ CloseAndReturn
  \/ CatchError
  \/ GenerateSend
  \/ GenerateCatch

SpecGenerate == InitGenerate /\ [][NextGenerate]_vars

(***************************************************************************)
(* Properties of the routes                                                *)
(***************************************************************************)
\* req.body.letterhead of the request being handled
rawLetterhead == IF hpc # "idle" THEN body.letterhead ELSE letterhead

\* C12: the letterhead of every request handed to generatePdf has passed
\* validateLetterheadData and is its sanitized result
C12_LetterheadValidated ==
  request # NoRequest
    => /\ validateLetterheadData(rawLetterhead).valid
       /\ request.letterhead = validateLetterheadData(rawLetterhead).sanitized

\* a body that lacks its type discriminant or a structurally required field
isMalformed(b) ==
  \/ b.type \notin {"page", "database"}
  \/ b.type = "page" /\ ~b.blocksIsArray
  \/ b.type = "database" /\ ~b.hasDatabase
  \/ b.letterhead.companyName = EmptyStr

\* C14: a single-render request that lacks its type discriminant or a
\* structurally required field never reaches generatePdf and is answered
\* with an error response
C14_MalformedRejected ==
  (hpc # "idle" /\ isMalformed(body))
    => /\ request = NoRequest
       /\ hpc = "done" => response.status = 400

(***************************************************************************)
(* Requests through the middleware stack                                   *)
(***************************************************************************)
InitLimit ==
  /\ hits = NoHits
  /\ served = NoneServed
  /\ arrived = 0
  /\ outcome = NoOutcomeYet
  /\ IdleExceptLimit

\* one request: through the stack until a layer answers it
ReceiveRequest ==
  /\ arrived < MaxRequests
  /\ \E ip \in IPs, req \in Requests :
       LET d == dispatch(1, hits, [ip |-> ip, path |-> req.path, method |-> req.method]) IN
         /\ hits' = d.hits
         /\ outcome' = [result |-> d.result, by |-> d.by]
         /\ served' = IF d.result = "handled"
                      THEN [served EXCEPT ![req.path][ip] = @ + 1]
                      ELSE served
  /\ arrived' = arrived + 1
  /\ UNCHANGED exceptLimit

\* windowMs of the three route limiters has passed
MinuteElapsed ==
  /\ arrived > 0
  /\ hits' = [l \in LimiterNames |->
                IF l \in MinuteLimiters THEN [ip \in IPs |-> 0] ELSE hits[l]]
  /\ served' = NoneServed
  /\ UNCHANGED <<arrived, outcome, exceptLimit>>

\* windowMs of the general limiter has passed
GeneralWindowElapsed ==
  /\ arrived > 0
  /\ hits' = [hits EXCEPT !["generalLimiter"] = [ip \in IPs |-> 0]]
  /\ UNCHANGED <<served, arrived, outcome, exceptLimit>>

NextLimit == ReceiveRequest \/ MinuteElapsed \/ GeneralWindowElapsed

SpecLimit == InitLimit /\ [][NextLimit]_vars

\* C13: within one minute at most 10 generate requests, 5 batch requests
\* and 30 fetch requests of one IP reach their route handler
C13_RouteLimits ==
  \A ip \in IPs :
    /\ served[GeneratePath][ip] <= 10
    /\ served[BatchPath][ip] <= 5
    /\ served[FetchPath][ip] <= 30

(***************************************************************************)
(* generatePdf under concurrent requests                                   *)
(***************************************************************************)
InitConc ==
  /\ renders = [i \in 1..MaxRenders |-> NoRender]
  /\ engines = << >>
  /\ IdleExceptConc

\* a route handler calls generatePdf; the composition has no await
RenderStart(i) ==
  /\ renders[i].pc = "idle"
  /\ \E o \in RenderOrigins, composes \in BOOLEAN :
       renders' = [renders EXCEPT ![i] =
                     [pc |-> IF composes THEN "launch" ELSE "catch",
                      browser |-> 0, origin |-> o]]
  /\ UNCHANGED <<engines, exceptConc>>

\* browser = await puppeteer.launch(...)
RenderLaunch(i) ==
  /\ renders[i].pc = "launch"
  /\ \/ LET k == launchedInstance(engines) IN
          /\ engines' = IF k > Len(engines)
                        THEN Append(engines,
                                    [state |-> "open", launchedBy |-> {i}, users |-> {}])
                        ELSE [engines EXCEPT ![k].launchedBy = @ \cup {i}]
          /\ renders' = [renders EXCEPT ![i].pc = "newPage", ![i].browser = k]
     \/ /\ renders' = [renders EXCEPT ![i].pc = "catch"]
        /\ UNCHANGED engines
  /\ UNCHANGED exceptConc

\* the awaited calls on the page of this invocation's browser:
\* newPage, setContent, pdf
RenderPage(i) ==
  /\ renders[i].pc \in {"newPage", "setContent", "pdf"}
  /\ \/ /\ engines' = [engines EXCEPT ![renders[i].browser].users = @ \cup {i}]
        /\ renders' = [renders EXCEPT ![i].pc =
                         CASE renders[i].pc = "newPage" -> "setContent"
                           [] renders[i].pc = "setContent" -> "pdf"
                           [] OTHER -> "close"]
     \/ /\ renders' = [renders EXCEPT ![i].pc = "catch"]
        /\ UNCHANGED engines
  /\ UNCHANGED exceptConc

\* await browser.close(); return Buffer.from(pdf)
RenderClose(i) ==
  /\ renders[i].pc = "close"
  /\ engines' = [engines EXCEPT ![renders[i].browser].state = "closed"]
  /\ \E rejects \in BOOLEAN :
       renders' = [renders EXCEPT ![i].pc = IF rejects THEN "catch" ELSE "returned"]
  /\ UNCHANGED exceptConc

\* the catch clause: if (browser) await browser.close(); throw
RenderCatch(i) ==
  /\ renders[i].pc = "catch"
  /\ engines' = IF catchCloses(renders[i].browser)
                THEN [engines EXCEPT ![renders[i].browser].state = "closed"]
                ELSE engines
  /\ renders' = [renders EXCEPT ![i].pc = "threw"]
  /\ UNCHANGED exceptConc

NextConc ==
  \E i \in 1..MaxRenders :
    \/ RenderStart(i)
    \/ RenderLaunch(i)
    \/ RenderPage(i)
    \/ RenderClose(i)
    \/ RenderCatch(i)

SpecConc == InitConc /\ [][NextConc]_vars

\* C15: no browser instance is launched for or used by two invocations of
\* generatePdf, no invocation launches or uses two instances, and an
\* invocation uses only the instance it launched
C15_OneInstancePerRender ==
  /\ \A k \in 1..Len(engines) :
       /\ Cardinality(engines[k].launchedBy) = 1
       /\ engines[k].users \subseteq engines[k].launchedBy
  /\ \A i \in 1..MaxRenders :
       Cardinality({k \in 1..Len(engines) :
                      i \in engines[k].launchedBy \cup engines[k].users}) <= 1

\* two invocations, one of a single render and one of a batch, are both
\* between launch and close and each has opened a page on its own instance
C15_Witness ==
  \E i, j \in 1..MaxRenders :
    /\ renders[i].origin = "generate" /\ renders[j].origin = "batch"
    /\ renders[i].pc = "pdf" /\ renders[j].pc = "pdf"
    /\ renders[i].browser # renders[j].browser
    /\ i \in engines[renders[i].browser].users
    /\ j \in engines[renders[j].browser].users

\* the positions of a token in a string
positions(s, tok) == {k \in 1..Len(s) : s[k] = tok}

\* C16: the document of a page titled 'Untitled' has no title heading but
\* has the letterhead and the content wrapper, which is empty when there
\* are no blocks; the document of any other title has one title heading,
\* after the letterhead and before the properties panel and the content
C16_TitleHeading ==
  (cpc = "done" /\ ~document.threw) =>
    LET d == document.value
        heading == positions(d, TitleHeadingOpen)
        content == positions(d, ContentOpen)
    IN  /\ positions(d, LetterheadOpen) # {}
        /\ Cardinality(content) = 1
        /\ docRequest.blocks = << >> => \A c \in content : d[c + 1] = "</div>"
        /\ IF docRequest.title = <<"Untitled">>
           THEN heading = {}
           ELSE /\ Cardinality(heading) = 1
                /\ \A h \in heading :
                     /\ \A l \in positions(d, LetterheadDivider) : l < h
                     /\ \A p \in positions(d, PropertiesOpen) \cup content : h < p

\* a page titled 'Untitled' without blocks has been composed
C16_Witness ==
  /\ cpc = "done"
  /\ docRequest.title = <<"Untitled">>
  /\ docRequest.blocks = << >>
  /\ includes(document.value, ContentOpen)

\* one token through String.prototype.toLowerCase
toLowerCaseToken(tok) ==
  CASE tok = "Title" -> "title"
    [] tok = "Status" -> "status"
    [] tok = "Owner" -> "owner"
    [] OTHER -> tok

toLowerCase(s) == [k \in 1..Len(s) |-> toLowerCaseToken(s[k])]

\* key.toLowerCase() !== 'title', PropertyFilter.tsx:31, negated: the
\* property the client withholds from toggling
isTitleNamed(key) == toLowerCase(key) = <<"title">>

\* the property names of the rows of the panel, in document order
RECURSIVE panelKeys(_)
panelKeys(d) ==
  IF Len(d) < 2 THEN << >>
  ELSE IF d[1] = PropertyLabelOpen THEN <<<<d[2]>>>> \o panelKeys(Tail(d))
  ELSE panelKeys(Tail(d))

\* the properties that are neither title-named nor hidden
remainingKeys(properties, hiddenProperties) ==
  LET keep(entry) == ~isTitleNamed(entry.key) /\ entry.key \notin hiddenProperties
      kept == SelectSeq(properties, keep)
  IN  [k \in 1..Len(kept) |-> kept[k].key]

\* C17: the properties panel never holds the title-named property and
\* holds exactly the other properties that are not hidden
C17_TitlePropertyExcluded ==
  (cpc = "done" /\ ~document.threw)
    => panelKeys(document.value)
         = remainingKeys(docRequest.properties, docRequest.hiddenProperties)

(***************************************************************************)
(* generateDatabaseTableHtml as one call                                   *)
(***************************************************************************)
InitTable ==
  /\ resource \in {Database(<<"Tasks">>, TableSchema, rows) : rows \in TableRowLists}
  /\ hiddenColumns \in TableHidden
  /\ tableHtml = EmptyStr
  /\ tpc = "called"
  /\ IdleExceptTable

CallGenerateDatabaseTableHtml ==
  /\ tpc = "called"
  /\ tableHtml' = generateDatabaseTableHtml(resource, hiddenColumns)
  /\ tpc' = "done"
  /\ UNCHANGED <<resource, hiddenColumns, exceptTable>>

NextTable == CallGenerateDatabaseTableHtml

SpecTable == InitTable /\ [][NextTable]_vars

(***************************************************************************)
(* Properties of the database table                                        *)
(***************************************************************************)
\* the column names of the header cells, in document order
RECURSIVE headerNames(_)
headerNames(d) ==
  IF Len(d) < 4 THEN << >>
  ELSE IF d[1] = HeaderCellOpen THEN <<<<d[4]>>>> \o headerNames(Tail(d))
  ELSE headerNames(Tail(d))

\* what the cells of the row that starts here show, up to its </tr>
RECURSIVE cellsOfRow(_)
cellsOfRow(d) ==
  IF Len(d) < 4 \/ d[1] = "</tr>" THEN << >>
  ELSE IF d[1] = DataCellOpen THEN <<d[4]>> \o cellsOfRow(Tail(d))
  ELSE cellsOfRow(Tail(d))

\* the data rows of the body, each as what its cells show
RECURSIVE bodyRows(_)
bodyRows(d) ==
  IF Len(d) = 0 THEN << >>
  ELSE IF d[1] \in {"<tr class=\"even\">", "<tr class=\"odd\">"}
  THEN <<cellsOfRow(Tail(d))>> \o bodyRows(Tail(d))
  ELSE bodyRows(Tail(d))

\* the schema columns that are not hidden, in schema order
schemaColumns(res, hidden) ==
  LET shown(col) == col.name \notin hidden
      kept == SelectSeq(res.schema, shown)
  IN  [k \in 1..Len(kept) |-> kept[k].name]

\* what the cell of a value shows
shownValue(value) == IF value = EmptyStr THEN EmptyCell ELSE escapeHtml(value)[1]

\* C18: the header has one cell per schema column that is not hidden, in
\* schema order; every data row lists its cells in that column order; the
\* rows appear in input order
C18_SchemaOrder ==
  LET columns == schemaColumns(resource, hiddenColumns) IN
    (tpc = "done" /\ Len(columns) > 0) =>
      /\ headerNames(tableHtml) = columns
      /\ bodyRows(tableHtml) =
           [r \in 1..Len(resource.rows) |->
              [c \in 1..Len(columns) |->
                 shownValue(valueOf(resource.rows[r].properties, columns[c]))]]

\* the empty-state row of a table without rows, PreviewDocument.tsx:419
EmptyRowMessage == "<em>No rows in this database</em>"

\* C19: a database with a visible column and no rows is rendered as the
\* table header, one empty-state row and no data row; the 'no columns to
\* display' message is produced exactly when no schema column is visible
C19_EmptyCasesDistinct ==
  LET columns == schemaColumns(resource, hiddenColumns) IN
    tpc = "done" =>
      /\ (Len(columns) > 0 /\ Len(resource.rows) = 0) =>
           /\ headerNames(tableHtml) = columns
           /\ includes(tableHtml, EmptyRowMessage)
           /\ bodyRows(tableHtml) = << >>
      /\ includes(tableHtml, NoColumnsMessage) <=> Len(columns) = 0

(***************************************************************************)
(* The OAuth flow                                                          *)
(***************************************************************************)
InitOauth ==
  /\ session = [c \in Clients |-> NoSession]
  /\ callback = EmptyBag
  /\ issued = {}
  /\ exchanges = {}
  /\ tokenWrites = {}
  /\ pagesSearch = [c \in Clients |-> 0]
  /\ oauthEnv \in OAuthEnvs
  /\ reply = NoReply
  /\ IdleExceptOauth

\* GET /notion: 500 when the OAuth configuration is incomplete, otherwise
\* store a fresh state in the session and redirect
InitiateOAuth(c) ==
  /\ LET configCheck == validateOAuthConfig(oauthEnv) IN
       IF configCheck # "valid"
       THEN /\ reply' = [client |-> c, kind |-> notConfigured(configCheck)]
            /\ UNCHANGED <<session, issued>>
       ELSE /\ \E st \in OAuthStates :
                 /\ session' = [session EXCEPT ![c].oauthState = st]
                 /\ issued' = issued \cup {[client |-> c, state |-> st]}
            /\ reply' = [client |-> c, kind |-> "authorize"]
  /\ UNCHANGED <<callback, exchanges, tokenWrites, pagesSearch, oauthEnv, exceptOauth>>

\* exchangeCodeForToken(code): it throws when a variable of the
\* configuration is missing, otherwise Notion answers the tokens or not
exchangeOutcomes ==
  IF validateOAuthConfig(oauthEnv) = "valid" THEN BOOLEAN ELSE {FALSE}

\* what the handler of the callback does with a query: the outcome of its
\* checks and, when they pass, the state it has verified
callbackArrival(query, sess) ==
  LET check == callbackCheck(query, sess) IN
    [check |-> check, state |-> IF check = "ok" THEN query.state ELSE NoValue]

\* GET /notion/callback up to `await exchangeCodeForToken(code)`, or its
\* early response; the handler that passes the checks deletes oauthState
\* from the session it read and awaits the exchange
CallbackReceive(c) ==
  /\ \E arrival \in {callbackArrival(query, session[c]) : query \in Queries} :
       IF arrival.check = "ok"
       THEN /\ BagCardinality(callback) < MaxCallbacks
            /\ callback' = callback (+) SetToBag(
                              {[client |-> c, state |-> arrival.state,
                                session |-> [session[c] EXCEPT !.oauthState = NoValue]]})
            /\ exchanges' = exchanges \cup
                              {[client |-> c, state |-> arrival.state,
                                held |-> session[c].oauthState]}
            /\ UNCHANGED reply
       ELSE /\ reply' = [client |-> c, kind |-> arrival.check]
            /\ UNCHANGED <<callback, exchanges>>
  /\ UNCHANGED <<session, issued, tokenWrites, pagesSearch, oauthEnv, exceptOauth>>

\* a callback handler after the await: store the token and redirect, or
\* the catch clause; the response carries the handler's session
CallbackComplete(c) ==
  \E handler \in BagToSet(callback) :
    /\ handler.client = c
    /\ callback' = callback (-) SetToBag({handler})
    /\ \E exchanged \in exchangeOutcomes :
         IF exchanged
         THEN /\ session' = [session EXCEPT ![c] =
                               [handler.session EXCEPT !.notionToken = "token"]]
              /\ tokenWrites' = tokenWrites \cup
                                  {[client |-> c, state |-> handler.state]}
              /\ reply' = [client |-> c, kind |-> "auth=success"]
         ELSE /\ session' = [session EXCEPT ![c] = handler.session]
              /\ reply' = [client |-> c, kind |-> "error=oauth_failed"]
              /\ UNCHANGED tokenWrites
    /\ UNCHANGED <<issued, exchanges, pagesSearch, oauthEnv, exceptOauth>>

\* POST /logout: req.session = null
Logout(c) ==
  /\ session' = [session EXCEPT ![c] = NoSession]
  /\ reply' = [client |-> c, kind |-> "logout"]
  /\ UNCHANGED <<callback, issued, exchanges, tokenWrites, pagesSearch, oauthEnv, exceptOauth>>

NextOauth ==
  \E c \in Clients :
    \/ InitiateOAuth(c)
    \/ CallbackReceive(c)
    \/ CallbackComplete(c)
    \/ Logout(c)

SpecOauth == InitOauth /\ [][NextOauth]_vars

\* C20: every token exchange and every token write belongs to a callback
\* whose state parameter is present, equals the oauthState its session
\* held, and was stored in that session by GET /notion; a session holds a
\* token only through such a write
C20_TokenOnlyAfterStateMatch ==
  /\ \A e \in exchanges :
       /\ e.state # NoValue
       /\ e.held = e.state
       /\ [client |-> e.client, state |-> e.state] \in issued
  /\ \A w \in tokenWrites :
       \E e \in exchanges : e.client = w.client /\ e.state = w.state
  /\ \A c \in Clients :
       session[c].notionToken # NoValue
         => \E w \in tokenWrites : w.client = c

\* one client holds a token and has two callbacks with the same state
\* awaiting the exchange, and a callback of the other client, whose session
\* holds no oauthState, has just been refused
C20_Witness ==
  \E c, d \in Clients :
    /\ c # d
    /\ session[c].notionToken # NoValue
    /\ \E handler \in BagToSet(callback) :
         handler.client = c /\ CopiesIn(handler, callback) = 2
    /\ session[d].oauthState = NoValue
    /\ reply = [client |-> d, kind |-> "Invalid state parameter"]
    /\ \A e \in exchanges : e.client # d

(***************************************************************************)
(* The session routes: GET /api/auth/status and GET /api/notion/pages next *)
(* to the OAuth flow                                                       *)
(***************************************************************************)
\* !!req.session?.notionToken
authenticated(sess) == sess.notionToken # NoValue

\* GET /status: report whether the session holds a token
GetStatus(c) ==
  /\ reply' = [client |-> c,
               kind |-> IF authenticated(session[c])
                        THEN "authenticated=true" ELSE "authenticated=false"]
  /\ UNCHANGED <<session, callback, issued, exchanges, tokenWrites, pagesSearch, oauthEnv, exceptOauth>>

\* the outcomes of the search loop of GET /pages: the page list, or the catch
\* clause with `error.message || 'Failed to fetch pages'`
SearchOutcomes ==
  {"200 pages", "500 API token is invalid.", "500 Failed to fetch pages"}

\* GET /pages up to the first `await notion.search(...)`: 401 without a
\* session token, otherwise the handler holds the token it read and waits
GetPages(c) ==
  /\ IF ~authenticated(session[c])
     THEN /\ reply' = [client |-> c, kind |-> "401 Not authenticated"]
          /\ UNCHANGED pagesSearch
     ELSE /\ pagesSearch[c] < MaxSearches
          /\ pagesSearch' = [pagesSearch EXCEPT ![c] = @ + 1]
          /\ UNCHANGED reply
  /\ UNCHANGED <<session, callback, issued, exchanges, tokenWrites, oauthEnv, exceptOauth>>

\* GET /pages after the search loop: the list, or the catch clause; the
\* handler does not read the session again and leaves it unchanged
GetPagesReply(c) ==
  /\ pagesSearch[c] > 0
  /\ \E result \in SearchOutcomes :
       reply' = [client |-> c, kind |-> result]
  /\ pagesSearch' = [pagesSearch EXCEPT ![c] = @ - 1]
  /\ UNCHANGED <<session, callback, issued, exchanges, tokenWrites, oauthEnv, exceptOauth>>

InitSession == InitOauth

\* the sessions of different clients share nothing: one client's session
\* is followed
SessionClients == {"c1"}

NextSession ==
  \E c \in SessionClients :
    \/ InitiateOAuth(c)
    \/ CallbackReceive(c)
    \/ CallbackComplete(c)
    \/ Logout(c)
    \/ GetStatus(c)
    \/ GetPages(c)
    \/ GetPagesReply(c)

SpecSession == InitSession /\ [][NextSession]_vars

\* C21: a logout leaves the session without a token; a session without a
\* token is reported as authenticated=false by GET /status and answered 401
\* by GET /pages (a GET /pages request received before the logout and still
\* awaiting its search is not a request made after the logout); and a
\* session without a token gets one only in a step in which an OAuth
\* callback succeeds for it
C21_LoggedOutUntilCallback ==
  [][\A c \in Clients :
       /\ reply' = [client |-> c, kind |-> "logout"]
            => ~authenticated(session'[c])
       /\ (~authenticated(session'[c]) /\ pagesSearch[c] = 0)
            => reply' \notin {[client |-> c, kind |-> "authenticated=true"]}
                                \cup {[client |-> c, kind |-> k] : k \in SearchOutcomes}
       /\ (~authenticated(session[c]) /\ authenticated(session'[c]))
            => reply' = [client |-> c, kind |-> "auth=success"]]_vars

(***************************************************************************)
(* Properties of the archive                                               *)
(***************************************************************************)
\* the ASCII letters and digits among the tokens, each with its lower case
LowerCaseOf ==
  {<<"A", "a">>, <<"Q", "q">>, <<"q", "q">>, <<"a", "a">>,
   <<"Untitled", "untitled">>, <<"Database", "database">>, <<"Report", "report">>,
   <<"0", "0">>, <<"1", "1">>, <<"2", "2">>, <<"3", "3">>, <<"4", "4">>,
   <<"5", "5">>, <<"6", "6">>, <<"7", "7">>, <<"8", "8">>, <<"9", "9">>}

\* name is title with every character outside [A-Za-z0-9] replaced by '_'
\* and the letters lower-cased, followed by '.pdf'
isEntryNameOf(name, title) ==
  /\ Len(name) = Len(title) + 1
  /\ name[Len(name)] = ".pdf"
  /\ \A k \in 1..Len(title) :
       IF \E p \in LowerCaseOf : p[1] = title[k]
       THEN <<title[k], name[k]>> \in LowerCaseOf
       ELSE name[k] = "_"

\* C22: the buffers collected so far are one per document rendered so far,
\* each named after its document's title; the archive that is sent has
\* exactly these entries, one per document of the request, equal names
\* included
C22_EntryNames ==
  /\ bpc \in {"loop", "await"} => Len(pdfBuffers) = bi - 1
  /\ \A k \in 1..Len(pdfBuffers) :
       isEntryNameOf(pdfBuffers[k].filename, batchTitle(pages[k], k))
  /\ response.type = "zip"
       => /\ response.entries = pdfBuffers
          /\ Len(response.entries) = Len(pages)

\* an archive with two entries of the same name that come from documents
\* with different titles
C22_Witness ==
  /\ response.type = "zip"
  /\ \E j, k \in 1..Len(response.entries) :
       /\ j < k
       /\ response.entries[j].filename = response.entries[k].filename
       /\ pages[j].title # pages[k].title
       /\ pages[j].title # EmptyStr

(***************************************************************************)
(* The order of the steps of generatePdf                                   *)
(***************************************************************************)
\* the successor positions of each position of one generatePdf invocation
StepOrder ==
  {<<"idle", "html">>,
   <<"html", "launch">>, <<"launch", "newPage">>, <<"newPage", "setContent">>,
   <<"setContent", "pdf">>, <<"pdf", "close">>, <<"close", "returned">>,
   <<"html", "catch">>, <<"launch", "catch">>, <<"newPage", "catch">>,
   <<"setContent", "catch">>, <<"pdf", "catch">>, <<"close", "catch">>,
   <<"catch", "threw">>, <<"returned", "idle">>, <<"threw", "idle">>}

\* the documents of the batch handed to generatePdf so far that compose
composedSoFar ==
  {k \in 1..Len(pages) : k <= bi /\ batchRequest(pages[k], k).composes}

\* C23: an invocation moves through compose, launch, open page, set
\* content, rasterize, close in this order, leaving it only into its catch
\* clause; it holds a browser only after composing and launching, and a
\* document whose composition failed has no instance launched for it
C23_StepsInOrder ==
  [][/\ gpc' # gpc => <<gpc, gpc'>> \in StepOrder
     /\ gpc' \in {"html", "launch"} => browser' = 0
     /\ gpc' \in {"newPage", "setContent", "pdf", "close"}
          => /\ browser' # 0
             /\ instances'[browser'] = "open"
             /\ request'.composes
     /\ Len(instances') # Len(instances)
          => /\ gpc = "launch"
             /\ request.composes
     /\ fault'.phase = "compose" => browser' = 0
     /\ Len(instances') <= Cardinality(composedSoFar')]_vars

\* a batch whose second document failed to compose after the first was
\* rendered: one instance was launched, none for the second document
C23_Witness ==
  /\ gpc = "threw"
  /\ fault.phase = "compose"
  /\ bi = 2
  /\ Len(instances) = 1
  /\ instances[1] = "closed"

(***************************************************************************)
(* POST /api/notion/fetch, routes/notion.ts:14-61                          *)
(***************************************************************************)
\* a page id of 32 hexadecimal digits, one token
HexId == "0123456789abcdef0123456789abcdef"

\* /^(https?:\/\/)?(www\.)?notion\.so\//i on the tokens of a URL
matchesNotionUrl(url) ==
  LET afterScheme == IF startsWith(url, "https://") \/ startsWith(url, "http://")
                     THEN Tail(url) ELSE url
      afterWww == IF startsWith(afterScheme, "www.") THEN Tail(afterScheme)
                  ELSE afterScheme
  IN  startsWith(afterWww, "notion.so/")

\* validateNotionUrl(url).valid, part_002:207-226
validateNotionUrl(url) ==
  /\ url # EmptyStr
  /\ matchesNotionUrl(url) \/ url = <<HexId>>

\* validateNotionToken(token).valid, part_002:352-367
validateNotionToken(token) ==
  /\ token # EmptyStr
  /\ length(token) >= 10
  /\ length(token) =< 500
  /\ startsWith(token, "secret_") \/ startsWith(token, "ntn_")

\* req.session?.notionToken || bodyToken
chosenToken(sessionToken, bodyToken) ==
  IF sessionToken # EmptyStr THEN sessionToken ELSE bodyToken

\* the tokens a session can hold (tokens.access_token of an exchange), and
\* none
SessionTokens ==
  {EmptyStr, <<"ntn_", "oauth-token-value">>, <<"secret_", "oauth-token-value">>}

\* req.body.notionToken: absent, two well-formed tokens, one too short, one
\* without a known prefix
BodyTokens ==
  {EmptyStr, <<"secret_", "body-token-value">>, <<"ntn_", "body-token-value">>,
   <<"ntn_", "x">>, <<"bearer_", "body-token-value">>}

\* req.body.pageUrl
PageUrls ==
  {EmptyStr,
   <<"https://", "www.", "notion.so/", "Page-1">>,
   <<"notion.so/", "Page-1">>,
   <<"https://", "www.", "notion.so/", "Page-1-", HexId>>,
   <<HexId>>,
   <<"https://", "example.com/", "notion.so/", "Page-1">>,
   <<"ftp://", "notion.so/", "Page-1">>}

FetchReply(status, error) == [status |-> status, error |-> error]

InitFetch ==
  /\ fetchSession \in SessionTokens
  /\ fetchBody \in [pageUrl : PageUrls, notionToken : BodyTokens]
  /\ fetchCalls = << >>
  /\ fetchReply = FetchReply(0, EmptyStr)
  /\ fpc = "start"
  /\ IdleExceptFetch

\* the handler up to `await fetchNotionResource(pageUrl, notionToken)`, or
\* its early response
FetchValidate ==
  /\ fpc = "start"
  /\ LET notionToken == chosenToken(fetchSession, fetchBody.notionToken) IN
       IF ~validateNotionUrl(fetchBody.pageUrl)
       THEN /\ fetchReply' = FetchReply(400, <<"Invalid page URL">>)
            /\ fpc' = "done"
            /\ UNCHANGED fetchCalls
       ELSE IF notionToken = EmptyStr
       THEN /\ fetchReply' = FetchReply(401, <<"Not authenticated">>)
            /\ fpc' = "done"
            /\ UNCHANGED fetchCalls
       ELSE IF fetchBody.notionToken # EmptyStr
               /\ ~validateNotionToken(fetchBody.notionToken)
       THEN /\ fetchReply' = FetchReply(400, <<"Invalid token">>)
            /\ fpc' = "done"
            /\ UNCHANGED fetchCalls
       ELSE /\ fetchCalls' = Append(fetchCalls,
                                    [url |-> fetchBody.pageUrl, token |-> notionToken])
            /\ fpc' = "await"
            /\ UNCHANGED fetchReply
  /\ UNCHANGED <<fetchSession, fetchBody, exceptFetch>>

\* extractPageId(url), notionService.ts:53-90: the 32 hexadecimal digits of
\* the whole string, of the part after notion.so/, or of its end; NoValue
\* stands for the Error it throws
extractPageId(url) ==
  IF url = <<HexId>> THEN HexId
  ELSE IF \E j, k \in 1..Len(url) : j < k /\ url[j] = "notion.so/" /\ url[k] = HexId
  THEN HexId
  ELSE IF Len(url) > 0 /\ url[Len(url)] = HexId THEN HexId
  ELSE NoValue

\* what the Notion client throws: [code, message], EmptyStr for an Error
\* whose message is the empty string
ClientErrors ==
  {[code |-> "object_not_found", message |-> <<"Could not find page.">>],
   [code |-> "unauthorized", message |-> <<"API token is invalid.">>],
   [code |-> "restricted_resource", message |-> <<"Insufficient permissions.">>],
   [code |-> "validation_error",
    message |-> <<"Provided ID ", "is a database", ", not a page.">>],
   [code |-> "undefined", message |-> EmptyStr]}

\* the message of what the catch clause of fetchNotionPage throws,
\* notionService.ts:408-425
pageError(err) ==
  IF err.code = "object_not_found"
  THEN <<"Page not found. To fix: (1) Open the page in Notion, (2) Click \"...\" menu ",
         "(arrow)",
         " \"Connections\" or \"Add connections\", (3) Add your integration to that specific page. Note: Sharing a parent page is not enough - you must share the exact page you want to export.">>
  ELSE IF err.code = "unauthorized"
  THEN <<"Invalid Notion token. Make sure you copied the entire \"Internal Integration Secret\" from notion.so/my-integrations">>
  ELSE IF err.code = "restricted_resource"
  THEN <<"Access restricted. Open the page in Notion, click \"...\" ",
         "(arrow)",
         " \"Add connections\", and select your integration.">>
  ELSE IF includes(err.message, "is a database") THEN err.message
  ELSE <<"Failed to fetch Notion page: ">> \o err.message

\* the message of what the catch clause of fetchNotionDatabase throws,
\* notionService.ts:315-329
databaseError(err) ==
  IF err.code = "object_not_found"
  THEN <<"Database not found. To fix: (1) Open the database in Notion, (2) Click \"...\" menu ",
         "(arrow)",
         " \"Connections\" or \"Add connections\", (3) Add your integration to that database.">>
  ELSE IF err.code = "unauthorized"
  THEN <<"Invalid Notion token. Make sure you copied the entire \"Internal Integration Secret\" from notion.so/my-integrations">>
  ELSE IF err.code = "restricted_resource"
  THEN <<"Access restricted. Open the database in Notion, click \"...\" ",
         "(arrow)",
         " \"Add connections\", and select your integration.">>
  ELSE <<"Failed to fetch Notion database: ">> \o err.message

\* the Error the row query of fetchNotionDatabase throws, :297-300: it has
\* no code
rowsError(err) ==
  [code |-> "undefined",
   message |-> <<"Failed to query database rows: ">> \o err.message]

\* error.message of what fetchNotionResource rethrows: the client's error
\* of detectResourceType as it is, or what fetchNotionPage or
\* fetchNotionDatabase throw; EmptyStr is an error without message
FetchErrors ==
  UNION {{err.message, pageError(err), databaseError(err),
          databaseError(rowsError(err))} : err \in ClientErrors}

\* error.message || 'Failed to fetch Notion resource'
fetchErrorText(message) ==
  IF message # EmptyStr THEN message ELSE <<"Failed to fetch Notion resource">>

\* the handler after the await: fetchNotionResource throws what
\* extractPageId throws before any request to Notion, otherwise it answers
\* the resource or rethrows its cause; the handler sends the resource as
\* JSON, or the catch clause sends 500 with the message
FetchRespond ==
  /\ fpc = "await"
  /\ IF extractPageId(fetchBody.pageUrl) = NoValue
     THEN fetchReply' = FetchReply(500,
            <<"Invalid Notion URL or page ID. Please paste the full URL from your browser.">>)
     ELSE \/ fetchReply' = FetchReply(200, EmptyStr)
          \/ \E message \in FetchErrors :
               fetchReply' = FetchReply(500, fetchErrorText(message))
  /\ fpc' = "done"
  /\ UNCHANGED <<fetchSession, fetchBody, fetchCalls, exceptFetch>>

NextFetch == FetchValidate \/ FetchRespond

SpecFetch == InitFetch /\ [][NextFetch]_vars

\* C24: once the checks of the handler are over, a request whose session
\* holds a token and whose page URL is valid has had the resource fetched
\* with the session token, whatever the body token is; a fetch is made with
\* the body token only for a session without a token
C24_SessionTokenPrecedence ==
  /\ (fpc # "start" /\ fetchSession # EmptyStr /\ validateNotionUrl(fetchBody.pageUrl))
       => fetchCalls = <<[url |-> fetchBody.pageUrl, token |-> fetchSession]>>
  /\ \A k \in 1..Len(fetchCalls) :
       (fetchCalls[k].token = fetchBody.notionToken
          /\ fetchBody.notionToken # fetchSession)
         => fetchSession = EmptyStr

\* the instances launched so far that have not been closed
openInstances == {k \in 1..Len(instances) : instances[k] = "open"}

\* C25: at every moment of a batch request at most one instance it
\* launched is open, and that one belongs to the document the loop is at;
\* the k-th buffer collected and the k-th entry of the archive are the
\* artifact of the k-th document of the request
C25_OneAfterAnother ==
  /\ Cardinality(openInstances) <= 1
  /\ \A k \in openInstances : k = browser /\ bpc = "await"
  /\ Len(instances) <= bi
  /\ \A k \in 1..Len(pdfBuffers) :
       pdfBuffers[k].buffer = pdfOf(batchRequest(pages[k], k))
  /\ response.type = "zip"
       => \A k \in 1..Len(response.entries) :
            response.entries[k].buffer = pdfOf(batchRequest(pages[k], k))

\* an archive of three entries, the artifacts of three different documents,
\* after three instances were launched and closed
C25_Witness ==
  /\ response.type = "zip"
  /\ Len(response.entries) = 3
  /\ response.entries[1].buffer # response.entries[2].buffer
  /\ response.entries[2].buffer # response.entries[3].buffer
  /\ response.entries[1].buffer # response.entries[3].buffer
  /\ Len(instances) = 3
  /\ openInstances = {}

(***************************************************************************)
(* POST /batch with the archive part step by step (part_001:374-401): each *)
(* archive.append may throw and archive.finalize may reject                *)
(***************************************************************************)
InitArchive == InitBatch

\* archiver('zip'), the two res.setHeader calls and archive.pipe(res)
ArchivePipe ==
  /\ bpc = "loop"
  /\ bi > Len(pages)
  /\ apc = "idle"
  /\ resLog' = <<"setHeader Content-Type", "setHeader Content-Disposition", "pipe">>
  /\ apc' = "append"
  /\ bpc' = "archive"
  /\ UNCHANGED <<appended, pages, letterhead, bi, pdfBuffers, response, generateFrame,
                 renderVars, callVars, exceptArchiveAux>>

\* one archive.append(buffer, { name: filename }) of the loop
ArchiveAppend ==
  /\ apc = "append"
  /\ appended < Len(pdfBuffers)
  /\ \E throws \in BOOLEAN :
       IF throws
       THEN apc' = "catch" /\ UNCHANGED appended
       ELSE appended' = appended + 1 /\ UNCHANGED apc
  /\ UNCHANGED <<resLog, batchFrame, generateFrame, renderVars, callVars, exceptArchiveAux>>

\* await archive.finalize(): the archive has gone out on res, or the
\* promise rejects
ArchiveFinalize ==
  /\ apc = "append"
  /\ appended = Len(pdfBuffers)
  /\ \E rejects \in BOOLEAN :
       IF rejects
       THEN /\ apc' = "catch"
            /\ UNCHANGED <<response, bpc>>
       ELSE /\ apc' = "done"
            /\ bpc' = "done"
            /\ response' = [status |-> 200, type |-> "zip", error |-> EmptyStr,
                            entries |-> pdfBuffers]
  /\ UNCHANGED <<resLog, appended, pages, letterhead, bi, pdfBuffers, generateFrame,
                 renderVars, callVars, exceptArchiveAux>>

\* the handler's catch clause, entered from the archive part:
\* res.status(500).json({ error: ... })
ArchiveCatch ==
  /\ apc = "catch"
  /\ resLog' = resLog \o <<"status 500", "json">>
  /\ response' = [status |-> 500, type |-> "json",
                  error |-> <<"archive message">>, entries |-> << >>]
  /\ apc' = "done"
  /\ bpc' = "done"
  /\ UNCHANGED <<appended, pages, letterhead, bi, pdfBuffers, generateFrame,
                 renderVars, callVars, exceptArchiveAux>>

NextArchive ==
  \/ BatchValidate
  \/ BatchCallGenerate
  \/ GenerateHtml
  \/ LaunchBrowser
  \/ NewPage
  \/ SetContent
  \/ PrintPdf
  \/ CloseAndReturn
  \/ CatchError
  \/ BatchPushBuffer
  \/ BatchCatch
  \/ ArchivePipe
  \/ ArchiveAppend
  \/ ArchiveFinalize
  \/ ArchiveCatch

SpecArchive == InitArchive /\ [][NextArchive]_vars

\* C26: once the archive has been piped to the response, the handler makes
\* no call on the response that sets a status code or sends a JSON body
C26_OneResponse ==
  \A j, k \in 1..Len(resLog) :
    (j < k /\ resLog[j] = "pipe") => resLog[k] \notin {"status 500", "json"}

(***************************************************************************)
(* The client wizard as a state machine: every handler of App, and the     *)
(* continuation of each awaited call as a step of its own                  *)
(***************************************************************************)
\* after mount: the effect has started checkAuth, or it has reported the
\* error parameter of an OAuth redirect
InitApp ==
  /\ \/ /\ app = InitialAppState
        /\ authPending = TRUE
     \/ /\ app = [InitialAppState EXCEPT !.error = "Authentication failed"]
        /\ authPending = FALSE
  /\ fetches = {}
  /\ logoutPending = 0
  /\ generating = FALSE
  /\ sinceLogout = FALSE
  /\ uploads = {}
  /\ IdleExceptApp

\* checkAuth after `await checkAuthStatus()`: store the status, or log the
\* failure
CheckAuthComplete ==
  /\ authPending
  /\ authPending' = FALSE
  /\ \/ \E authStatus \in AuthStatuses :
          app' = [app EXCEPT !.authenticated = authStatus.authenticated,
                             !.workspaceName = authStatus.workspaceName,
                             !.workspaceIcon = authStatus.workspaceIcon]
     \/ UNCHANGED app
  /\ UNCHANGED <<fetches, logoutPending, generating, sinceLogout, uploads, exceptApp>>

\* handleFetchPage up to `await Promise.all(...)`; NotionUrlInput is shown
\* at step 1 and its button is disabled while loading
HandleFetchPage ==
  /\ app.step = 1
  /\ ~app.loading
  /\ \E urls \in FetchInputs, token \in {EmptyStr, <<"secret_", "body-token-value">>} :
       fetches' = fetches \cup {[urls |-> urls, token |-> token]}
  /\ app' = [app EXCEPT !.loading = TRUE, !.error = "null"]
  /\ sinceLogout' = FALSE
  /\ UNCHANGED <<authPending, logoutPending, generating, uploads, exceptApp>>

\* handleFetchPage after the await: store the pages and go to step 2, or
\* the catch clause
FetchComplete ==
  \E f \in fetches :
    /\ fetches' = fetches \ {f}
    /\ \/ app' = [app EXCEPT !.notionUrl = f.urls,
                             !.notionToken = f.token,
                             !.pageData = [k \in 1..Len(f.urls) |-> resourceOf(f.urls[k])],
                             !.step = 2,
                             !.loading = FALSE,
                             !.error = "null"]
       \/ app' = [app EXCEPT !.loading = FALSE, !.error = "Failed to fetch pages"]
    /\ UNCHANGED <<authPending, logoutPending, generating, sinceLogout, uploads, exceptApp>>

\* AuthStatus.handleLogout up to `await logout()`; AuthStatus is shown
\* while authenticated
ClickDisconnect ==
  /\ app.authenticated
  /\ logoutPending < MaxLogouts
  /\ logoutPending' = logoutPending + 1
  /\ UNCHANGED <<app, fetches, authPending, generating, sinceLogout, uploads, exceptApp>>

\* the pending file reads once the wizard shows nextStep: a LetterheadEditor
\* is mounted at step 2 only, and a read outlives the editor that began it
editorAt(nextStep) ==
  IF app.step = 2 /\ nextStep = 2 THEN uploads
  ELSE {[u EXCEPT !.mounted = FALSE] : u \in uploads}

\* AuthStatus.handleLogout after the await, on both outcomes: onLogout(),
\* which is App's handleLogout
HandleLogout ==
  /\ logoutPending > 0
  /\ logoutPending' = logoutPending - 1
  /\ app' = [app EXCEPT !.authenticated = FALSE,
                        !.workspaceName = NoValue,
                        !.workspaceIcon = NoValue,
                        !.step = 1,
                        !.pageData = << >>,
                        !.notionUrl = EmptyStr,
                        !.notionToken = EmptyStr]
  /\ uploads' = editorAt(1)
  /\ sinceLogout' = TRUE
  /\ UNCHANGED <<fetches, authPending, generating, exceptApp>>

\* handleUpdateLetterhead called by the events of the LetterheadEditor of
\* step 2 that have no await: updateField with {...letterhead, [field]:
\* value}, handleRemoveLogo (its button is disabled while uploading) with
\* {...letterhead, logoUrl: undefined}
HandleUpdateLetterhead ==
  /\ app.step = 2
  /\ \/ \E companyName \in {EmptyStr, <<"Acme">>} :
          app' = [app EXCEPT !.letterhead = [app.letterhead EXCEPT !.companyName = companyName]]
     \/ /\ app.letterhead.logoUrl # NoValue
        /\ \A u \in uploads : ~u.mounted
        /\ app' = [app EXCEPT !.letterhead = [app.letterhead EXCEPT !.logoUrl = NoValue]]
  /\ UNCHANGED <<fetches, authPending, logoutPending, generating, sinceLogout, uploads, exceptApp>>

\* LetterheadEditor.handleLogoUpload up to `await fileToBase64(file)`: the
\* file input is shown while the letterhead has no logo and is disabled
\* while this editor is uploading; the handler holds the letterhead of
\* the render in which the file was chosen
LogoUploadStart ==
  /\ app.step = 2
  /\ app.letterhead.logoUrl = NoValue
  /\ \A u \in uploads : ~u.mounted
  /\ Cardinality(uploads) < MaxUploads
  /\ uploads' = uploads \cup {[letterhead |-> app.letterhead, mounted |-> TRUE]}
  /\ UNCHANGED <<app, fetches, authPending, logoutPending, generating, sinceLogout, exceptApp>>

\* handleLogoUpload after the await: onUpdate({...letterhead, logoUrl}),
\* which is App's handleUpdateLetterhead, with the letterhead it holds; or
\* the catch clause, which leaves the state alone
LogoUploadComplete ==
  \E u \in uploads :
    /\ uploads' = uploads \ {u}
    /\ \/ app' = [app EXCEPT !.letterhead = [u.letterhead EXCEPT !.logoUrl = "data:image"]]
       \/ UNCHANGED app
    /\ UNCHANGED <<fetches, authPending, logoutPending, generating, sinceLogout, exceptApp>>

\* the navigation handlers: handleNextFromLetterhead (its button needs a
\* company name), handleBackToSelectFromLetterHead, handleNextFromFilter,
\* handleBackToLetterheadFromFilter, handleBackFromPreview,
\* handleContinueFromPreview
Navigate ==
  /\ \/ /\ app.step = 2
        /\ app.letterhead.companyName # EmptyStr
        /\ app' = [app EXCEPT !.step = IF hasFilterableFields(app.pageData) THEN 3 ELSE 4]
     \/ /\ app.step = 2
        /\ app' = [app EXCEPT !.step = 1]
     \/ /\ app.step = 3
        /\ Len(app.pageData) > 0
        /\ \E target \in {2, 4} : app' = [app EXCEPT !.step = target]
     \/ /\ app.step = 4
        /\ Len(app.pageData) > 0
        /\ app' = [app EXCEPT !.step = IF hasFilterableFields(app.pageData) THEN 3 ELSE 2]
     \/ /\ app.step = 4
        /\ Len(app.pageData) > 0
        /\ app' = [app EXCEPT !.step = 5]
  /\ uploads' = editorAt(app'.step)
  /\ UNCHANGED <<fetches, authPending, logoutPending, generating, sinceLogout, exceptApp>>

\* handleToggleProperty and handleToggleColumn, from the PropertyFilter of
\* step 3
HandleToggle ==
  /\ app.step = 3
  /\ Len(app.pageData) > 0
  /\ \/ app' = [app EXCEPT !.hiddenProperties = toggle(@, "Status")]
     \/ app' = [app EXCEPT !.hiddenColumns = toggle(@, "Due")]
  /\ UNCHANGED <<fetches, authPending, logoutPending, generating, sinceLogout, uploads, exceptApp>>

\* handleGeneratePdf up to its await; the button is disabled while loading
HandleGeneratePdf ==
  /\ app.step = 5
  /\ ~app.loading
  /\ Len(app.pageData) # 0
  /\ app' = [app EXCEPT !.loading = TRUE, !.error = "null"]
  /\ generating' = TRUE
  /\ UNCHANGED <<fetches, authPending, logoutPending, sinceLogout, uploads, exceptApp>>

\* handleGeneratePdf after the await: the download, or the catch clause
GenerateComplete ==
  /\ generating
  /\ generating' = FALSE
  /\ \/ app' = [app EXCEPT !.loading = FALSE, !.error = "null"]
     \/ app' = [app EXCEPT !.loading = FALSE, !.error = "Failed to generate PDF"]
  /\ UNCHANGED <<fetches, authPending, logoutPending, sinceLogout, uploads, exceptApp>>

\* handleReset, 'Start Over' of step 5 (disabled while loading): setState
\* with a new object that names authenticated and no workspace field
HandleReset ==
  /\ app.step = 5
  /\ ~app.loading
  /\ app' = [InitialAppState EXCEPT !.authenticated = app.authenticated]
  /\ UNCHANGED <<fetches, authPending, logoutPending, generating, sinceLogout, uploads, exceptApp>>

NextApp ==
  \/ CheckAuthComplete
  \/ HandleFetchPage
  \/ FetchComplete
  \/ ClickDisconnect
  \/ HandleLogout
  \/ HandleUpdateLetterhead
  \/ LogoUploadStart
  \/ LogoUploadComplete
  \/ Navigate
  \/ HandleToggle
  \/ HandleGeneratePdf
  \/ GenerateComplete
  \/ HandleReset

SpecApp == InitApp /\ [][NextApp]_vars

\* C27: from handleLogout until the user starts a new fetch, pageData is
\* empty and the wizard is at step 1, whatever completes in between
C27_LogoutClearsWizard ==
  sinceLogout => (app.pageData = << >> /\ app.step = 1 /\ ~app.authenticated)

\* C29: a step of handleReset puts step, page data, letterhead, hidden
\* sets, loading and error back to their initial values and leaves
\* authenticated, workspaceName and workspaceIcon as they were
C29_ResetKeepsAuthentication ==
  [][HandleReset
       => /\ app'.step = 1
          /\ app'.pageData = << >>
          /\ app'.letterhead = InitialAppState.letterhead
          /\ app'.hiddenProperties = << >>
          /\ app'.hiddenColumns = << >>
          /\ app'.loading = FALSE
          /\ app'.error = "null"
          /\ app'.authenticated = app.authenticated
          /\ app'.workspaceName = app.workspaceName
          /\ app'.workspaceIcon = app.workspaceIcon]_vars

\* a token that holds one of the characters < > " '
hasMarkupChar(tok) == IsTag(tok) \/ tok \in {"<", ">", "\"", "'"}

\* C28: a letterhead that validateLetterheadData has accepted is handed to
\* generatePdf with a company name that is not empty and with no < > " '
\* in its text fields
C28_SanitizedNameRequired ==
  (hpc # "idle" /\ request # NoRequest /\ validateLetterheadData(body.letterhead).valid)
    => /\ request.letterhead = validateLetterheadData(body.letterhead).sanitized
       /\ request.letterhead.companyName # EmptyStr
       /\ \A text \in {request.letterhead.companyName, request.letterhead.address,
                       request.letterhead.phone, request.letterhead.email} :
            \A k \in 1..Len(text) : ~hasMarkupChar(text[k])

(***************************************************************************)
(* The OAuth callback with several requests of one session in flight       *)
(* (part_002:48-120).  The session is the cookie of the client: a handler  *)
(* works on the copy it read when its request arrived, and the copy goes   *)
(* back to the client with the handler's response.                         *)
(***************************************************************************)
InitReplay ==
  /\ session = [c \in Clients |-> NoSession]
  /\ callback = EmptyBag
  /\ issued = {}
  /\ exchanges = {}
  /\ tokenWrites = {}
  /\ pagesSearch = [c \in Clients |-> 0]
  /\ oauthEnv \in OAuthEnvs
  /\ reply = NoReply
  /\ IdleExceptOauth

\* GET /notion: 500 when the OAuth configuration is incomplete, otherwise
\* store a fresh state in the session and redirect
StoreState(c) ==
  /\ LET configCheck == validateOAuthConfig(oauthEnv) IN
       IF configCheck # "valid"
       THEN /\ reply' = [client |-> c, kind |-> notConfigured(configCheck)]
            /\ UNCHANGED <<session, uses>>
       ELSE /\ \E st \in OAuthStates :
                 /\ session' = [session EXCEPT ![c].oauthState = st]
                 /\ uses' = [uses EXCEPT ![c][st] = 0]
            /\ reply' = [client |-> c, kind |-> "authorize"]
  /\ UNCHANGED <<handlers, callback, issued, exchanges, tokenWrites, pagesSearch, oauthEnv, exceptReplayOauth>>

\* GET /notion/callback up to `await exchangeCodeForToken(code)`, or its
\* early response, which does not touch the session
CallbackArrive(c) ==
  /\ \E query \in Queries :
       LET check == callbackCheck(query, session[c]) IN
         IF check = "ok"
         THEN /\ Len(handlers) < MaxCallbacks
              /\ handlers' = Append(handlers,
                                    [client |-> c, state |-> query.state,
                                     session |-> [session[c] EXCEPT !.oauthState = NoValue]])
              /\ uses' = [uses EXCEPT ![c][query.state] = @ + 1]
              /\ UNCHANGED reply
         ELSE /\ reply' = [client |-> c, kind |-> check]
              /\ UNCHANGED <<handlers, uses>>
  /\ UNCHANGED <<session, callback, issued, exchanges, tokenWrites, pagesSearch, oauthEnv, exceptReplayOauth>>

\* a handler after the await: store the token and redirect, or the catch
\* clause; the response carries the handler's session
CallbackFinish(c) ==
  \E k \in 1..Len(handlers) :
    /\ handlers[k].client = c
    /\ handlers' = [j \in 1..(Len(handlers) - 1) |->
                      IF j < k THEN handlers[j] ELSE handlers[j + 1]]
    /\ \E exchanged \in exchangeOutcomes :
         IF exchanged
         THEN /\ session' = [session EXCEPT ![c] =
                               [handlers[k].session EXCEPT !.notionToken = "token"]]
              /\ reply' = [client |-> c, kind |-> "auth=success"]
         ELSE /\ session' = [session EXCEPT ![c] = handlers[k].session]
              /\ reply' = [client |-> c, kind |-> "error=oauth_failed"]
    /\ UNCHANGED <<uses, callback, issued, exchanges, tokenWrites, pagesSearch, oauthEnv, exceptReplayOauth>>

NextReplay ==
  \E c \in Clients :
    \/ StoreState(c)
    \/ CallbackArrive(c)
    \/ CallbackFinish(c)

SpecReplay == InitReplay /\ [][NextReplay]_vars

\* the early responses of the callback
Rejections ==
  {"access_denied", "Missing authorization code", "Missing state parameter",
   "Invalid state parameter"}

\* C30: a state stored in a session is verified by at most one callback,
\* and a step that answers a callback with a rejection leaves the session
\* as it was
C30_StateSingleUse ==
  [][/\ \A c \in Clients : \A st \in OAuthStates : uses'[c][st] <= 1
     /\ \A c \in Clients :
          (reply' # reply /\ reply'.client = c /\ reply'.kind \in Rejections)
            => session'[c] = session[c]]_vars

====
